---- MODULE Spec2Model ----
(***************************************************************************)
(* Phase 1 UAT "Demand = Supply" (tests/demand-supply.spec.ts): one test   *)
(* unit reads the "Demand forecast" row of the Supply Planning page, the   *)
(* lock icons and the "Gross sales" year rows of the Forecasts page,       *)
(* stitches the year rows into one monthly series, aligns it with the      *)
(* supply series at the current month and classifies the differences.      *)
(*                                                                         *)
(* Sequences are 1-based here; every index the code keeps (startIdx, the   *)
(* index of a mismatch, the loop counter i) is kept 0-based as in the      *)
(* source and shifted by one only where a sequence is subscripted.         *)
(***************************************************************************)
EXTENDS Integers, Sequences, FiniteSets, TLC

\* ---------------------------------------------------------------- bounds
\* Rows of one table beyond its header row.
MaxRows == 2
\* Length of the freely chosen supply value lists.
MaxShort == 2
\* Largest value in the freely chosen supply value lists.
MaxVal == 1
\* Data cells of a row whose cells are chosen freely.
MaxCells == 2
\* Months after a link of the Supply Monitoring page chosen freely.
MaxEntries == 3

\* ------------------------------------------------------- program constants
\* Math.min(3, ...) of the overlap loop.
MaxOverlap == 3
\* A header row needs at least this many month cells.
MinHeaderCells == 6
\* expect(values.length).toBeGreaterThan(10)
MinDemandValues == 10
\* expect(result.comparedCount).toBeGreaterThanOrEqual(12)
MinCompared == 12
\* The Supply Monitoring page shows this many months of lost sales.
MonthsShown == 3
\* while (sibling && count < 20)
MaxSiblings == 20
\* headers.slice(0, 18)
MaxHeaders == 18

\* ------------------------------------------------------------ month labels
Months == <<"JAN", "FEB", "MAR", "APR", "MAY", "JUN",
            "JUL", "AUG", "SEP", "OCT", "NOV", "DEC">>

MonthSet == {Months[n] : n \in 1..12}

\* The month with number n, any n >= 1 (13 is JAN again).
MonthAt(n) == Months[((n - 1) % 12) + 1]

MonthNumber(m) == CHOOSE n \in 1..12 : Months[n] = m

NextMonth(m) == MonthAt(MonthNumber(m) + 1)

\* n consecutive month labels, the first being month number start.
Run(start, n) == [j \in 1..n |-> MonthAt(start + j - 1)]

\* --------------------------------------------------- JavaScript array calls
Min(a, b) == IF a < b THEN a ELSE b

\* s.slice(from)
SliceFrom(s, from) == SubSeq(s, Min(from, Len(s)) + 1, Len(s))

\* s.slice(0, to)
SliceTo(s, to) == SubSeq(s, 1, Min(to, Len(s)))

\* s.slice(-k), k >= 1
SliceLast(s, k) == IF k >= Len(s) THEN s ELSE SubSeq(s, Len(s) - k + 1, Len(s))

RECURSIVE IndexFrom(_, _, _)
IndexFrom(s, x, j) ==
    IF j >= Len(s) THEN -1
    ELSE IF s[j + 1] = x THEN j
    ELSE IndexFrom(s, x, j + 1)

RECURSIVE LastIndexFrom(_, _, _)
LastIndexFrom(s, x, j) ==
    IF j < 0 THEN -1
    ELSE IF s[j + 1] = x THEN j
    ELSE LastIndexFrom(s, x, j - 1)

\* s.lastIndexOf(x) in the place of s.indexOf(x).
LastIndexOf(s, x) == LastIndexFrom(s, x, Len(s) - 1)

\* Math.max(0, s.indexOf(x)): an absent element defaults to the first position.
IndexOfOrZero(s, x) == IF IndexFrom(s, x, 0) = -1 THEN 0 ELSE IndexFrom(s, x, 0)

\* s.indexOf(x): the 0-based index of the first element equal to x, or -1.
IndexOf(s, x) == IndexFrom(s, x, 0)

\* prevEnd.every((month, idx) => month === currStart[idx])
Every(prevEnd, currStart) ==
    \A idx \in 1..Len(prevEnd) :
        idx <= Len(currStart) /\ prevEnd[idx] = currStart[idx]

\* ------------------------------------------------------------ cell text
(***************************************************************************)
(* The text of a cell is a sequence of tokens, each a string: a decimal    *)
(* digit, a comma, a minus sign or hyphen, an en dash, a space, a bracket, *)
(* a month code in capitals or in mixed case, a run of other letters ("x") *)
(* or one of the phrases the code searches for.                            *)
(***************************************************************************)
\* The en dash (U+2013) of a year range.
EnDash == "ndash"

Digits == <<"0", "1", "2", "3", "4", "5", "6", "7", "8", "9">>

DigitSet == {Digits[d] : d \in 1..10}

DigitValue(c) == CHOOSE d \in 0..9 : Digits[d + 1] = c

\* The decimal text of n >= 0, as the application renders a number.
RECURSIVE ToText(_)
ToText(n) ==
    IF n < 10 THEN <<Digits[n + 1]>>
    ELSE ToText(n \div 10) \o <<Digits[(n % 10) + 1]>>

MixedCase == <<"Jan", "Feb", "Mar", "Apr", "May", "Jun",
               "Jul", "Aug", "Sep", "Oct", "Nov", "Dec">>

\* The month names of the Supply Monitoring page, in capitals and as shown.
MonthNames == <<"JANUARY", "FEBRUARY", "MARCH", "APRIL", "MAY", "JUNE", "JULY",
                "AUGUST", "SEPTEMBER", "OCTOBER", "NOVEMBER", "DECEMBER">>

ShownNames == <<"January", "February", "March", "April", "May", "June", "July",
                "August", "September", "October", "November", "December">>

\* The capitals of the tokens that are not in capitals.
Capitals ==
    [t \in {MixedCase[n] : n \in 1..12} \cup {ShownNames[n] : n \in 1..12} |->
        IF \E n \in 1..12 : MixedCase[n] = t
        THEN Months[CHOOSE n \in 1..12 : MixedCase[n] = t]
        ELSE MonthNames[CHOOSE n \in 1..12 : ShownNames[n] = t]]

\* text.toUpperCase()
ToUpperCase(text) ==
    [p \in 1..Len(text) |->
        IF text[p] \in DOMAIN Capitals THEN Capitals[text[p]] ELSE text[p]]

RECURSIVE TrimStart(_)
TrimStart(text) ==
    IF text # <<>> /\ text[1] = " " THEN TrimStart(Tail(text)) ELSE text

RECURSIVE TrimEnd(_)
TrimEnd(text) ==
    IF text # <<>> /\ text[Len(text)] = " "
    THEN TrimEnd(SubSeq(text, 1, Len(text) - 1))
    ELSE text

\* text.trim()
Trim(text) == TrimEnd(TrimStart(text))

\* text.replace(/,/g, '')
RemoveCommas(text) == SelectSeq(text, LAMBDA c : c # ",")

\* text.includes(phrase)
Includes(text, phrase) == \E p \in 1..Len(text) : text[p] = phrase

NaN == [nan |-> TRUE, num |-> 0]

RECURSIVE LeadingDigits(_, _)
LeadingDigits(text, p) ==
    IF p <= Len(text) /\ text[p] \in DigitSet
    THEN LeadingDigits(text, p + 1)
    ELSE p - 1

RECURSIVE DecimalValue(_, _)
DecimalValue(text, n) ==
    IF n = 0 THEN 0
    ELSE 10 * DecimalValue(text, n - 1) + DigitValue(text[n])

\* parseInt(text): leading white space is skipped, a sign is accepted, the
\* digits that follow are read up to the first other character; NaN when no
\* digit follows.
ParseInt(text) ==
    LET s == TrimStart(text)
        signed == s # <<>> /\ s[1] = "-"
        body == IF signed THEN Tail(s) ELSE s
        n == LeadingDigits(body, 1)
    IN  IF n = 0 THEN NaN
        ELSE [nan |-> FALSE,
              num |-> IF signed THEN 0 - DecimalValue(body, n)
                      ELSE DecimalValue(body, n)]

\* ------------------------------------------------------------- the pages
(***************************************************************************)
(* A table is a sequence of rows and a row a sequence of cells.  A cell    *)
(* has a tag (th or td), its text content and the value of the input       *)
(* element it holds (empty when it holds none or the input is empty).      *)
(* A page keeps a row the application renders from month codes or from a   *)
(* label and numbers as those, and any other row as its cells; Cells(row)  *)
(* is what the browser shows of it.                                        *)
(***************************************************************************)
Cell(tag, text, input) == [tag |-> tag, text |-> text, input |-> input]

\* The text content of a row: the texts of its cells, one after the other.
RECURSIVE TextContent(_)
TextContent(cells) ==
    IF cells = <<>> THEN <<>> ELSE cells[1].text \o TextContent(Tail(cells))

\* A row of month-code header cells.
HeaderRow(labels) == [months |-> labels]

\* The label of a year row: Gross sales [2025-2026], the years joined by an en dash.
YearLabel(text, yr) ==
    <<text, " ", "[">> \o ToText(yr) \o <<EnDash>> \o ToText(yr + 1) \o <<"]">>

\* A row of a label cell and one cell per number; yr = 0 for a row whose
\* label carries no year range.
DataRow(text, yr, vals) == [label |-> text, year |-> yr, numbers |-> vals]

\* A row given by its cells.
CellRow(cells) == [cells |-> cells]

\* The cells of a row.
Cells(row) ==
    IF "cells" \in DOMAIN row THEN row.cells
    ELSE IF "months" \in DOMAIN row
    THEN [c \in 1..Len(row.months) |-> Cell("th", <<row.months[c]>>, <<>>)]
    ELSE <<Cell("td",
                IF row.year = 0 THEN <<row.label>>
                ELSE YearLabel(row.label, row.year),
                <<>>)>> \o
         [c \in 1..Len(row.numbers) |-> Cell("td", ToText(row.numbers[c]), <<>>)]

\* The forecast of the month t months after the first column of the first
\* fiscal year: what both pages show when they agree.
Forecast(t) == t + 1

Years == {2025, 2026}

\* Column c (from 0) of the Gross sales row of fiscal year yr.
GrossSalesValues(yr, n) == [c \in 1..n |-> Forecast(12 * (yr - 2025) + c - 1)]

GrossSalesRow(yr, n) == DataRow("Gross sales", yr, GrossSalesValues(yr, n))

\* A table: its header row, then one Gross sales row per entry of specs.
GrossTable(header, specs) ==
    <<HeaderRow(header)>> \o
    [j \in 1..Len(specs) |-> GrossSalesRow(specs[j].year, specs[j].n)]

\* Sequences over S of length lo..hi.
SeqsOf(S, lo, hi) == UNION {[1..n -> S] : n \in lo..hi}

\* The Supply Planning page starts at the current month or, lagging (a page
\* rendered in another time zone), at the month before it; its Demand
\* forecast row holds n values, the one at position d off by one.
SupplyValues(start, n, d) ==
    [j \in 1..n |->
        Forecast(((start + 2) % 12) + j - 1) + (IF j = d THEN 1 ELSE 0)]

SupplyTable(header, vals) ==
    <<HeaderRow(header), DataRow("Demand forecast", 0, vals)>>

SupplyLens == {0, 11, 12, 18}
PerturbAt == {0, 1, 12}
SupplyHeaderLens == {0, 18}
Lags == {0, 1}

SupplyPages(month) ==
    {[text |-> FALSE, tables |-> <<>>]}
    \cup
    {[text |-> TRUE,
      tables |-> <<SupplyTable(Run(MonthNumber(month) + 12 - lag, hl),
                               SupplyValues(MonthNumber(month) + 12 - lag, n, d))>>] :
        lag \in Lags, hl \in SupplyHeaderLens, n \in SupplyLens, d \in PerturbAt}
    \cup
    {[text |-> TRUE,
      tables |-> <<SupplyTable(Run(MonthNumber(month), 18), vals)>>] :
        vals \in SeqsOf(0..MaxVal, 0, MaxShort)}

\* The lock and check icons of the Forecasts page.
IconCounts == {0, 2}

\* Forecasts pages with one Stats by Year table of 11, 12 or 13 month columns
\* starting at OCT: no year row, one, two (the later year listed first), or
\* two whose rows hold one number more than the header has months.
UnitTables ==
    UNION {
        { GrossTable(Run(10, hl), <<>>),
          GrossTable(Run(10, hl), <<[year |-> 2025, n |-> hl]>>),
          GrossTable(Run(10, hl), <<[year |-> 2026, n |-> hl],
                                    [year |-> 2025, n |-> hl]>>),
          GrossTable(Run(10, hl), <<[year |-> 2026, n |-> hl + 1],
                                    [year |-> 2025, n |-> hl + 1]>>) } :
        hl \in {11, 12, 13}}

\* Header rows of other shapes: 12 to 16 columns, a row of too few month
\* cells, a table starting at DEC, and headers that repeat a month.
StitchHeaders ==
    {Run(10, hl) : hl \in {5, 12, 13, 14, 15, 16}}
    \cup {Run(12, 12),
          <<"OCT", "OCT", "NOV", "DEC", "JAN", "OCT", "OCT">>,
          <<"OCT", "OCT", "OCT", "OCT", "OCT", "OCT">>}

RowSpecs(header) ==
    SeqsOf([year : Years, n : {Len(header) - 1, Len(header), Len(header) + 1}],
           0, MaxRows)

StitchPages ==
    {<<GrossTable(h, specs)>> : <<h, specs>> \in
        UNION {{<<hh, ss>> : ss \in RowSpecs(hh)} : hh \in StitchHeaders}}
    \cup
    {<<GrossTable(h1, <<[year |-> y1, n |-> Len(h1)]>>),
       GrossTable(h2, <<[year |-> y2, n |-> Len(h2)]>>)>> :
        h1 \in StitchHeaders, h2 \in StitchHeaders, y1 \in Years, y2 \in Years}

\* What a data cell may hold: 230, 1,234, 2026, 1950, -5, 10,000,000,
\* nothing, letters, 12 followed by letters, 7 between spaces, an input
\* holding 42, and a th cell holding 9.
CellChoices ==
    {Cell("td", ToText(230), <<>>),
     Cell("td", <<"1", ",", "2", "3", "4">>, <<>>),
     Cell("td", ToText(2026), <<>>),
     Cell("td", ToText(1950), <<>>),
     Cell("td", <<"-", "5">>, <<>>),
     Cell("td", <<"1", "0", ",", "0", "0", "0", ",", "0", "0", "0">>, <<>>),
     Cell("td", <<>>, <<>>),
     Cell("td", <<"x">>, <<>>),
     Cell("td", <<"1", "2", "x">>, <<>>),
     Cell("td", <<" ", "7", " ">>, <<>>),
     Cell("td", <<>>, ToText(42)),
     Cell("th", ToText(9), <<>>)}

\* Forecasts pages of one table: a header row of six months and a Gross
\* sales [2025-2026] row of freely chosen cells.
CellPages ==
    {<<<<HeaderRow(Run(10, 6)),
         CellRow(<<Cell("td", YearLabel("Gross sales", 2025), <<>>)>>
                 \o cells)>>>> :
        cells \in SeqsOf(CellChoices, 0, MaxCells)}

\* Supply Planning pages of one table: a header row of six months and a
\* Demand forecast row of freely chosen cells.
SupplyCellPages ==
    {[text |-> TRUE,
      tables |-> <<<<HeaderRow(Run(12, 6)),
                     CellRow(<<Cell("td", <<"Demand forecast">>, <<>>)>>
                             \o cells)>>>>] :
        cells \in SeqsOf(CellChoices, 0, MaxCells)}

\* A year range with a hyphen.
HyphenRange(yr) == <<"[">> \o ToText(yr) \o <<"-">> \o ToText(yr + 1) \o <<"]">>

\* Row labels: Gross sales with a hyphen or an en dash range, the (LY) and
\* (LLY) rows, Gross sales without a range, another row with a range, the
\* range before Gross sales, and another bracket before the range.
LabelTexts ==
    {<<"Gross sales", " ">> \o HyphenRange(2025),
     YearLabel("Gross sales", 2026),
     <<"Gross sales", " ", "(LY)", " ">> \o HyphenRange(2024),
     <<"Gross sales", " ", "(LLY)", " ">> \o HyphenRange(2023),
     <<"Gross sales">>,
     <<"x", " ">> \o HyphenRange(2025),
     HyphenRange(2025) \o <<" ", "Gross sales">>,
     <<"Gross sales", " ", "[", "x", "]", " ">> \o HyphenRange(2025)}

LabelledRow(label, vals) ==
    CellRow(<<Cell("td", label, <<>>)>> \o
            [c \in 1..Len(vals) |-> Cell("td", ToText(vals[c]), <<>>)])

\* Forecasts pages of two labelled rows, in one table or one in each of two
\* tables, under a header row of six months or one of five, the rows holding
\* two numbers or none.
LabelPages ==
    {<<<<HeaderRow(Run(10, hl)), LabelledRow(l1, vals), LabelledRow(l2, vals)>>>> :
        <<l1, l2, hl, vals>> \in
            LabelTexts \X LabelTexts \X {5, 6} \X {<<>>, <<230, 231>>}}
    \cup
    {<<<<HeaderRow(Run(10, 6)), LabelledRow(l1, <<230, 231>>)>>,
       <<HeaderRow(Run(10, hl)), LabelledRow(l2, <<230, 231>>)>>>> :
        <<l1, l2, hl>> \in LabelTexts \X LabelTexts \X {5, 6}}

\* A row of cells such as JAN 26: a month code, a space and a year.
MonthYearRow(labels) ==
    CellRow([c \in 1..Len(labels) |->
                Cell("th", <<labels[c], " ", "2", "6">>, <<>>)])

\* Rows that may or may not be taken for the header row: five month cells,
\* six month cells between an empty cell, a cell of letters and a month
\* followed by letters, seven month cells in mixed case, and six cells of a month
\* and a year.
HeaderCandidates ==
    {HeaderRow(Run(1, 5)),
     CellRow(<<Cell("th", <<>>, <<>>)>> \o Cells(HeaderRow(Run(10, 3)))
             \o <<Cell("td", <<"x">>, <<>>), Cell("td", <<"JAN", "x">>, <<>>)>>
             \o Cells(HeaderRow(Run(13, 3)))),
     CellRow([c \in 1..7 |-> Cell("td", <<" ", MixedCase[c + 3]>>, <<>>)]),
     MonthYearRow(Run(7, 6))}

\* Forecasts pages of one table: up to MaxRows + 1 candidate rows above a
\* Gross sales row of seven numbers.
HeaderPages ==
    {<<rows \o <<DataRow("Gross sales", 2025, [c \in 1..7 |-> c])>>>> :
        rows \in SeqsOf(HeaderCandidates, 0, MaxRows + 1)}

SupplyHeaderPages ==
    {[text |-> TRUE,
      tables |-> <<rows \o <<DataRow("Demand forecast", 0, [c \in 1..7 |-> c])>>>>] :
        rows \in SeqsOf(HeaderCandidates, 0, MaxRows + 1)}

\* ------------------------------------------------- the Lost Sales pages
\* The colour of the style-colour combination under test.
Color == "Red"

\* The number of the first month the Supply Monitoring page shows.
FirstShown == 9

\* An element of the Supply Monitoring page: its tag and its text.
Element(tag, text) == [tag |-> tag, text |-> text]

\* A link of the Supply Monitoring page: its text, whether its href points to
\* a planning page with a color parameter, whether it lies in a table row,
\* and the elements that follow it: the row's elements in document order
\* when it lies in a row, its next siblings otherwise.
Link(text, planning, row, elements) ==
    [text |-> text, planning |-> planning, row |-> row, elements |-> elements]

\* The heading of the month at position k of a colour's row, as the page shows
\* it: in the first place as shown, in the second in capitals, then padded.
Heading(k) ==
    LET n == ((FirstShown + k - 2) % 12) + 1
    IN  Element("H4", IF k = 1 THEN <<ShownNames[n]>>
                      ELSE IF k = 2 THEN <<MonthNames[n]>>
                      ELSE <<" ", ShownNames[n], " ">>)

\* What a month of a colour's row can be made of: a heading and its value, a
\* heading and a value with a thousands separator, a heading with no value
\* after it, a heading that names no month, a heading and a dash.
Entry(kind, k) ==
    IF kind = "pair" THEN <<Heading(k), Element("P", ToText(k - 1))>>
    ELSE IF kind = "thousands"
    THEN <<Heading(k), Element("P", <<" ", "1", ",", "2", "0", "0">>)>>
    ELSE IF kind = "bare" THEN <<Heading(k)>>
    ELSE IF kind = "note" THEN <<Element("H4", <<"x">>), Element("P", <<"9">>)>>
    ELSE <<Heading(k), Element("P", <<"-">>)>>

EntryKinds == {"pair", "thousands", "bare", "note", "dash"}

RECURSIVE Entries(_, _)
Entries(kinds, k) ==
    IF k > Len(kinds) THEN <<>>
    ELSE Entry(kinds[k], k) \o Entries(kinds, k + 1)

\* The elements after a link: up to MaxEntries months.
ElementChoices ==
    {Entries(kinds, 1) : kinds \in SeqsOf(EntryKinds, 0, MaxEntries)}

LinkTexts == {<<Color>>, <<" ", Color, " ">>, <<"Blue">>, <<>>}

\* Supply Monitoring pages of one link of any text, href, place and months.
OneLinkPages ==
    {[lostSales |-> TRUE,
      links |-> <<Link(text, planning, row, elements)>>] :
        text \in LinkTexts, planning \in BOOLEAN, row \in BOOLEAN,
        elements \in ElementChoices}

\* The links of the application and those around them: colour rows of three
\* and of four months, a link of the colour outside any row and without
\* months (a breadcrumb), a colour row of two months, another colour.
LinkChoices ==
    {Link(<<Color>>, TRUE, TRUE, Entries(<<"pair", "pair", "pair">>, 1)),
     Link(<<Color>>, TRUE, TRUE, Entries(<<"pair", "pair", "pair", "pair">>, 1)),
     Link(<<Color>>, TRUE, TRUE,
          Entries(<<"thousands", "pair", "pair", "pair">>, 1)),
     Link(<<Color>>, FALSE, FALSE, <<>>),
     Link(<<Color>>, FALSE, FALSE, <<Element("DIV", <<"x">>)>>),
     Link(<<Color>>, TRUE, TRUE, Entries(<<"pair", "pair">>, 1)),
     Link(<<"Blue">>, TRUE, TRUE, Entries(<<"dash", "pair", "pair">>, 1))}

\* Supply Monitoring pages of up to two such links, with the Lost sales
\* heading and without.
LinkPages ==
    {[lostSales |-> lostSales, links |-> links] :
        lostSales \in BOOLEAN, links \in SeqsOf(LinkChoices, 0, 2)}

MonitoringPages == OneLinkPages \cup LinkPages

\* The text of the column heading of month n (from 1, running on) of the
\* Supply Planning page, the first column being month `first` of year 2026.
MonthYear(first, n) ==
    LET m == first + n - 2
    IN  <<Months[(m % 12) + 1], " ", "2", "0", "2", ToText(6 + (m \div 12))[1]>>

\* A th of the Supply Planning page: its text, whether it lies in a table
\* row, and the texts of the buttons of that row.
Th(text, row, buttons) == [text |-> text, row |-> row, buttons |-> buttons]

\* n buttons that show the numbers from 0 on.
Buttons(n) == [c \in 1..n |-> ToText(c - 1)]

\* The Potential Lost Sales row of the application.
LostSalesTh(buttons) == Th(<<"Potential Lost Sales">>, TRUE, buttons)

ReplenishmentTh ==
    Th(<<"Replenishment", " ", "Lost Sales">>, TRUE, [c \in 1..18 |-> <<"7">>])

\* The column headings of the application: 18 months from `first`, each
\* found twice where the page nests one text element in another leaf.
Leaves(first, n) == [c \in 1..n |-> MonthYear(first, c)]

\* Supply Planning pages: the text never appears; the application's page
\* with values that agree with the monitoring page, that differ, that hold a
\* cell without a number; the row after the Replenishment row; no
\* Potential Lost Sales th; a th outside any row; a row without buttons; a
\* page without column headings; a page of 20 columns; a page of six
\* columns that starts a month later; a row of two buttons.
PlanningPages ==
    {[text |-> FALSE, leaves |-> <<>>, ths |-> <<>>],
     [text |-> TRUE, leaves |-> Leaves(FirstShown, 18),
      ths |-> <<LostSalesTh(Buttons(18))>>],
     [text |-> TRUE, leaves |-> Leaves(FirstShown, 18),
      ths |-> <<LostSalesTh([c \in 1..18 |-> <<"0">>])>>],
     [text |-> TRUE, leaves |-> Leaves(FirstShown - 1, 18),
      ths |-> <<LostSalesTh(<<<<EnDash>>>> \o Buttons(17))>>],
     [text |-> TRUE, leaves |-> Leaves(FirstShown, 18),
      ths |-> <<ReplenishmentTh, LostSalesTh(Buttons(18))>>],
     [text |-> TRUE, leaves |-> Leaves(FirstShown, 18),
      ths |-> <<Th(<<"Replenishment", " ", "Potential Lost Sales">>, TRUE,
                   [c \in 1..18 |-> <<"7">>])>>],
     [text |-> TRUE, leaves |-> Leaves(FirstShown, 18),
      ths |-> <<Th(<<"Potential Lost Sales">>, FALSE, <<>>)>>],
     [text |-> TRUE, leaves |-> Leaves(FirstShown, 18),
      ths |-> <<LostSalesTh(<<>>)>>],
     [text |-> TRUE, leaves |-> <<>>,
      ths |-> <<LostSalesTh(Buttons(18))>>],
     [text |-> TRUE,
      leaves |-> <<MonthYear(FirstShown, 1)>> \o Leaves(FirstShown, 20),
      ths |-> <<LostSalesTh(Buttons(20))>>],
     [text |-> TRUE, leaves |-> Leaves(FirstShown + 1, 6),
      ths |-> <<LostSalesTh(Tail(Buttons(7)))>>],
     [text |-> TRUE, leaves |-> Leaves(FirstShown, 18),
      ths |-> <<LostSalesTh(Buttons(2))>>]}

\* ---------------------------------------------------------------- state
VARIABLES
    now,            \* the month getCurrentMonth() returns when called
    supplyPage,     \* the Supply Planning page
    forecastsPage,  \* the Forecasts page
    pc,             \* the position of the test body
    supplyData,     \* const supplyData
    lockStatus,     \* lockStatus.locked
    grossSalesRows, \* const grossSalesRows
    i,              \* the loop counter of the concatenation loop
    overlaps,       \* the value of overlap at the end of each pass of the loop
    allLabels,      \* let allLabels
    allValues,      \* let allValues
    currentMonth,   \* const currentMonth of the test body
    startIdx,       \* const startIdx of alignAndCompare
    result,         \* const result
    status,         \* the outcome of the test
    error,          \* the message of the failed expectation or thrown error
    stdout,         \* what the test has written to its standard output
    calls,          \* the functions the Demand = Supply test has called
    monitoringPage, \* the Supply Monitoring page, colors expanded
    planningPage,   \* the Supply Planning page of the color
    step,           \* the position of the Lost Sales test body
    monitoringData, \* const monitoringData
    allColors,      \* const allColors, once the batch extraction has run
    planningData,   \* const planningData
    comparison,     \* const result of the Lost Sales test
    outcome,        \* the outcome of the Lost Sales test
    thrown,         \* the message of its failed expectation or thrown error
    shell,          \* the position of the command that runs the tests
    runs,           \* the test runs the command has still to make
    running,        \* the tests of the run under way
    results,        \* this.results of the CSVReporter of the run under way
    reported,       \* every call of onTestEnd the command has seen
    csvFile,        \* test_results.csv
    lineNo,         \* the loop counter i of ingest
    inserted,       \* the parameters of the inserts ingest has made
    errors,         \* let errors of ingest
    statsPage,      \* the Stats by Year section of the Forecasts page
    checkboxState,  \* const checkboxState of ensureShowYear2Checked
    clicks,         \* the clicks on Show year 2, each with the state it met
    place           \* the position of extractDemandData before its evaluate

\* The variables of the Lost Sales test.
lostSalesVars == <<monitoringPage, planningPage, step, monitoringData,
                   allColors, planningData, comparison, outcome, thrown>>

\* The variables of the Demand = Supply test.
demandSupplyVars ==
    <<now, supplyPage, forecastsPage, pc, supplyData, lockStatus,
      grossSalesRows, i, overlaps, allLabels, allValues, currentMonth,
      startIdx, result, status, error, stdout, calls>>

\* The variables of a command that runs the tests and of ingest.
reporterVars == <<shell, runs, running, results, reported, csvFile, lineNo,
                  inserted, errors>>

\* The variables of the start of extractDemandData.
checkboxVars == <<statsPage, checkboxState, clicks, place>>

vars == <<demandSupplyVars, lostSalesVars, reporterVars, checkboxVars>>

pageVars == <<supplyPage, forecastsPage>>

Locals ==
    /\ pc = "supply"
    /\ supplyData = [values |-> <<>>, headers |-> <<>>]
    /\ lockStatus = FALSE
    /\ grossSalesRows = <<>>
    /\ i = 0
    /\ overlaps = <<>>
    /\ allLabels = <<>>
    /\ allValues = <<>>
    /\ currentMonth = ""
    /\ startIdx = -1
    /\ result = [mismatches |-> <<>>, comparedCount |-> 0]
    /\ status = "running"
    /\ error = ""
    /\ stdout = <<>>
    /\ calls = <<>>

\* extractDemandData has not been called.
CheckboxLocals ==
    /\ statsPage = [header |-> TRUE, loading |-> FALSE, label |-> TRUE,
                    kind |-> "button", state |-> "checked", renders |-> TRUE,
                    yearRows |-> 2]
    /\ checkboxState = [found |-> FALSE, state |-> "null"]
    /\ clicks = <<>>
    /\ place = "loading"

\* No command has run and there is no test_results.csv.
ReporterLocals ==
    /\ shell = "start"
    /\ running = <<>>
    /\ results = <<>>
    /\ reported = <<>>
    /\ csvFile = [exists |-> FALSE, content |-> <<>>]
    /\ lineNo = 1
    /\ inserted = <<>>
    /\ errors = 0

\* The locals of the Lost Sales test before its first extraction.
LostSalesLocals ==
    /\ step = "monitoring"
    /\ monitoringData = [months |-> <<>>, values |-> <<>>]
    /\ allColors = [called |-> FALSE, colorMap |-> <<>>]
    /\ planningData = [headers |-> <<>>, values |-> <<>>]
    /\ comparison = [match |-> TRUE, mismatches |-> <<>>]
    /\ outcome = "running"
    /\ thrown = ""

\* The Lost Sales test starts on the expanded Supply Monitoring page of the
\* style, the Supply Planning page of the colour behind it.
LostSalesInit ==
    /\ monitoringPage \in MonitoringPages
    /\ planningPage \in PlanningPages
    /\ LostSalesLocals
    /\ now = "DEC"
    /\ supplyPage = [text |-> FALSE, tables |-> <<>>]
    /\ forecastsPage = [section |-> FALSE, lockIconCount |-> 0,
                        checkIconCount |-> 0, tables |-> <<>>]
    /\ Locals
    /\ runs = <<>>
    /\ ReporterLocals
    /\ CheckboxLocals

\* The unit starts after the navigation to the style and colour, on pages of
\* one of four families: any month, supply page and icons over the Stats by
\* Year tables of the application; one agreeing supply page over tables of
\* any shape; the same over rows of any cells, labels and header
\* candidates; a Supply Planning page of any cells and header candidates.
Init ==
    /\ \/ /\ now \in MonthSet
          /\ supplyPage \in SupplyPages(now)
          /\ forecastsPage \in
                [section : BOOLEAN, lockIconCount : IconCounts,
                 checkIconCount : IconCounts,
                 tables : {<<t>> : t \in UnitTables}]
       \/ /\ now = "DEC"
          /\ supplyPage = [text |-> TRUE,
                           tables |-> <<SupplyTable(Run(12, 18),
                                                    SupplyValues(12, 18, 0))>>]
          /\ forecastsPage \in
                [section : {TRUE}, lockIconCount : IconCounts,
                 checkIconCount : {2}, tables : StitchPages]
       \/ /\ now = "DEC"
          /\ supplyPage = [text |-> TRUE,
                           tables |-> <<SupplyTable(Run(12, 18),
                                                    SupplyValues(12, 18, 0))>>]
          /\ forecastsPage \in
                [section : {TRUE}, lockIconCount : {2}, checkIconCount : {2},
                 tables : CellPages \cup LabelPages \cup HeaderPages]
       \/ /\ now = "DEC"
          /\ supplyPage \in SupplyCellPages \cup SupplyHeaderPages
          /\ forecastsPage =
                [section |-> TRUE, lockIconCount |-> 2, checkIconCount |-> 2,
                 tables |-> <<GrossTable(Run(10, 12),
                                         <<[year |-> 2025, n |-> 12],
                                           [year |-> 2026, n |-> 12]>>)>>]
    /\ Locals
    /\ monitoringPage = [lostSales |-> FALSE, links |-> <<>>]
    /\ planningPage = [text |-> FALSE, leaves |-> <<>>, ths |-> <<>>]
    /\ LostSalesLocals
    /\ runs = <<>>
    /\ ReporterLocals
    /\ CheckboxLocals

\* ------------------------------------------------------------ extraction
\* row.querySelectorAll('td')
TdCells(cells) == SelectSeq(cells, LAMBDA cell : cell.tag = "td")

\* upperText.match(/^(JAN|...|DEC)/): the text starts with a month code.
MonthPrefix(upperText) == upperText # <<>> /\ upperText[1] \in MonthSet

\* /^(JAN|...|DEC)$/.test(cellText): the text is a month code.
MonthExact(upperText) == Len(upperText) = 1 /\ upperText[1] \in MonthSet

\* potentialHeaders: the month code of every th or td cell of the row whose
\* trimmed text in capitals matches; exact for the Forecasts page, by prefix
\* for the Supply Planning page.
RECURSIVE PotentialHeaders(_, _)
PotentialHeaders(cells, exact) ==
    IF cells = <<>> THEN <<>>
    ELSE LET upperText == ToUpperCase(Trim(cells[1].text))
             matched == IF exact THEN MonthExact(upperText)
                        ELSE MonthPrefix(upperText)
         IN  (IF matched THEN <<upperText[1]>> ELSE <<>>)
             \o PotentialHeaders(Tail(cells), exact)

RECURSIVE FindHeaderFrom(_, _, _)
FindHeaderFrom(rows, r, exact) ==
    IF r > Len(rows) THEN <<>>
    ELSE LET potentialHeaders == PotentialHeaders(Cells(rows[r]), exact)
         IN  IF Len(potentialHeaders) >= MinHeaderCells THEN potentialHeaders
             ELSE FindHeaderFrom(rows, r + 1, exact)

RECURSIVE FindLastHeaderFrom(_, _, _)
FindLastHeaderFrom(rows, r, exact) ==
    IF r < 1 THEN <<>>
    ELSE LET potentialHeaders == PotentialHeaders(Cells(rows[r]), exact)
         IN  IF Len(potentialHeaders) >= MinHeaderCells THEN potentialHeaders
             ELSE FindLastHeaderFrom(rows, r - 1, exact)

\* The scan without its break: a later row of at least 6 month cells
\* replaces an earlier one.
FindLastHeader(rows, exact) == FindLastHeaderFrom(rows, Len(rows), exact)

\* headerLabels: the month cells of the first row that has at least 6.
FindHeader(rows, exact) == FindHeaderFrom(rows, 1, exact)

\* values.push(isNaN(num) ? 0 : num)
SupplyAcceptsAny(num) == TRUE

\* if (!isNaN(num)) values.push(num)
SupplyAccepts(num) == ~num.nan

\* The values of the td cells of a Demand forecast row.
RECURSIVE SupplyCellValues(_)
SupplyCellValues(cells) ==
    IF cells = <<>> THEN <<>>
    ELSE LET cellText == Trim(cells[1].text)
             valueText == IF cells[1].input # <<>> THEN cells[1].input
                          ELSE cellText
             num == ParseInt(Trim(RemoveCommas(valueText)))
         IN  (IF Includes(cellText, "Demand forecast") THEN <<>>
              ELSE IF SupplyAccepts(num) THEN <<num.num>>
              ELSE <<>>)
             \o SupplyCellValues(Tail(cells))

RECURSIVE SupplyFromRows(_, _, _)
SupplyFromRows(rows, headerLabels, r) ==
    IF r > Len(rows) THEN <<>>
    ELSE LET cells == Cells(rows[r])
             values == SupplyCellValues(TdCells(cells))
         IN  IF Includes(TextContent(cells), "Demand forecast")
             THEN <<[values |-> values,
                     headers |-> SliceTo(headerLabels, Len(values))]>>
             ELSE SupplyFromRows(rows, headerLabels, r + 1)

RECURSIVE SupplyFromTables(_, _)
SupplyFromTables(tables, t) ==
    IF t > Len(tables) THEN [values |-> <<>>, headers |-> <<>>]
    ELSE LET found == SupplyFromRows(tables[t], FindHeader(tables[t], FALSE), 1)
         IN  IF found # <<>> THEN found[1]
             ELSE SupplyFromTables(tables, t + 1)

\* extractSupplyValues: the first Demand forecast row of the first table
\* that has one, with as many header labels as the row has values.
ExtractSupplyValues(tables) == SupplyFromTables(tables, 1)

\* \[(\d{4})[-ndash](\d{4})\] at position q of the text.
RangeAt(text, q) ==
    /\ q + 10 <= Len(text)
    /\ text[q] = "["
    /\ \A d \in 1..4 : text[q + d] \in DigitSet
    /\ text[q + 5] \in {"-", EnDash}
    /\ \A d \in 6..9 : text[q + d] \in DigitSet
    /\ text[q + 10] = "]"

\* [^[]*\[ : the position of the first bracket at or after q, 0 if none.
RECURSIVE FirstBracket(_, _)
FirstBracket(text, q) ==
    IF q > Len(text) THEN 0
    ELSE IF text[q] = "[" THEN q
    ELSE FirstBracket(text, q + 1)

\* rowText.match(/Gross sales[^[]*\[(\d{4})[-ndash](\d{4})\]/) tried at position
\* p and, failing there, at the positions after it.
RECURSIVE YearMatchFrom(_, _)
YearMatchFrom(text, p) ==
    IF p > Len(text) THEN [found |-> FALSE, year |-> 0]
    ELSE LET q == FirstBracket(text, p + 1)
         IN  IF text[p] = "Gross sales" /\ q > 0 /\ RangeAt(text, q)
             THEN [found |-> TRUE,
                   year |-> ParseInt(SubSeq(text, q + 1, q + 4)).num]
             ELSE YearMatchFrom(text, p + 1)

YearMatch(rowText) == YearMatchFrom(rowText, 1)

\* if (!isNaN(num) && num >= 0 && num < 10000000) values.push(num)
DemandAcceptsBelowLimit(num) ==
    ~num.nan /\ num.num >= 0 /\ num.num < 10000000

\* The filter with the calendar years 1900..2100 excluded.
DemandAcceptsOutsideYears(num) ==
    /\ ~num.nan
    /\ num.num >= 0
    /\ (num.num < 1900 \/ num.num > 2100 \/ num.num < 1000)

\* if (!isNaN(num) && num >= 0) values.push(num)
DemandAccepts(num) == ~num.nan /\ num.num >= 0

\* The values of the td cells of a Gross sales year row.
RECURSIVE GrossCellValues(_)
GrossCellValues(cells) ==
    IF cells = <<>> THEN <<>>
    ELSE LET cellText == Trim(cells[1].text)
             valueText == IF cells[1].input # <<>> THEN cells[1].input
                          ELSE cellText
             num == ParseInt(RemoveCommas(valueText))
         IN  (IF Includes(cellText, "Gross sales") THEN <<>>
              ELSE IF DemandAccepts(num) THEN <<num.num>>
              ELSE <<>>)
             \o GrossCellValues(Tail(cells))

\* The row filters without the exclusion of the (LY) and (LLY) rows.
IsYearRowOfAnyYear(rowText) ==
    Includes(rowText, "Gross sales") /\ YearMatch(rowText).found

\* A row is a year row when its text holds Gross sales, neither (LY) nor
\* (LLY), and a bracketed year range after Gross sales.
IsYearRow(rowText) ==
    /\ Includes(rowText, "Gross sales")
    /\ ~(Includes(rowText, "(LY)") \/ Includes(rowText, "(LLY)"))
    /\ YearMatch(rowText).found

RECURSIVE GrossFromRows(_, _, _)
GrossFromRows(rows, headerLabels, r) ==
    IF r > Len(rows) THEN <<>>
    ELSE LET cells == Cells(rows[r])
             rowText == TextContent(cells)
             values == GrossCellValues(TdCells(cells))
         IN  (IF /\ IsYearRow(rowText)
                 /\ Len(values) > 0
                 /\ Len(headerLabels) > 0
              THEN <<[year |-> YearMatch(rowText).year,
                      values |-> values,
                      headers |-> SliceTo(headerLabels, Len(values))]>>
              ELSE <<>>)
             \o GrossFromRows(rows, headerLabels, r + 1)

RECURSIVE GrossFromTables(_, _)
GrossFromTables(tables, t) ==
    IF t > Len(tables) THEN <<>>
    ELSE GrossFromRows(tables[t], FindHeader(tables[t], TRUE), 1)
         \o GrossFromTables(tables, t + 1)

\* The page.evaluate of extractDemandData: one result per Gross sales year
\* row of every table, in page order.
EvaluateGrossSales(tables) == GrossFromTables(tables, 1)

RECURSIVE InsertByYear(_, _)
InsertByYear(sorted, row) ==
    IF sorted = <<>> THEN <<row>>
    ELSE IF sorted[Len(sorted)].year - row.year <= 0
         THEN Append(sorted, row)
    ELSE Append(InsertByYear(SubSeq(sorted, 1, Len(sorted) - 1), row),
                sorted[Len(sorted)])

RECURSIVE SortFrom(_, _, _)
SortFrom(rows, r, sorted) ==
    IF r > Len(rows) THEN sorted
    ELSE SortFrom(rows, r + 1, InsertByYear(sorted, rows[r]))

\* The rows left in the order of the page.
PageOrderKept(rows) == rows

\* grossSalesRows.sort((a, b) => a.year - b.year): ascending, stable.
SortByYear(rows) == SortFrom(rows, 1, <<>>)

RECURSIVE OverlapLoop(_, _, _, _)
OverlapLoop(labels, rowLabels, k, overlap) ==
    IF k > Min(MaxOverlap, Min(Len(rowLabels), Len(labels))) THEN overlap
    ELSE OverlapLoop(labels, rowLabels, k + 1,
                     IF Every(SliceLast(labels, k), SliceTo(rowLabels, k))
                     THEN k ELSE overlap)

RECURSIVE FirstMatchLoop(_, _, _)
FirstMatchLoop(labels, rowLabels, k) ==
    IF k > Min(MaxOverlap, Min(Len(rowLabels), Len(labels))) THEN 0
    ELSE IF Every(SliceLast(labels, k), SliceTo(rowLabels, k)) THEN k
    ELSE FirstMatchLoop(labels, rowLabels, k + 1)

\* The loop with a break at the first match.
OverlapFirstMatch(labels, rowLabels) == FirstMatchLoop(labels, rowLabels, 1)

\* The loop with k running to 2 only.
OverlapUpToTwo(labels, rowLabels) ==
    OverlapLoop(SliceLast(labels, 2), SliceTo(rowLabels, 2), 1, 0)

\* The overlap loop: k runs from 1 and every match overwrites overlap.
Overlap(labels, rowLabels) == OverlapLoop(labels, rowLabels, 1, 0)

\* all.concat(row.slice(1)): one boundary element dropped whatever the overlap.
ConcatSliceOne(all, row, overlap) == all \o SliceFrom(row, 1)

\* The last overlap elements of all give way to those of the row.
ConcatKeepingRow(all, row, overlap) ==
    SubSeq(all, 1, Len(all) - Min(overlap, Len(all))) \o row

\* allValues.concat(row.values.slice(overlap))
ConcatSliced(all, row, overlap) == all \o SliceFrom(row, overlap)

\* --------------------------------------------------------------- comparison
\* labelsSliced[i] || `Month ${i}`
MonthOf(labelsSliced, j) ==
    IF j < Len(labelsSliced) THEN labelsSliced[j + 1]
    ELSE "Month " \o ToString(j)

RECURSIVE CompareFrom(_, _, _, _, _, _)
CompareFrom(supplyValues, demandSliced, labelsSliced, compareLength, j, mismatches) ==
    IF j >= compareLength THEN mismatches
    ELSE CompareFrom(supplyValues, demandSliced, labelsSliced, compareLength, j + 1,
            IF supplyValues[j + 1] # demandSliced[j + 1]
            THEN Append(mismatches,
                        [index |-> j,
                         month |-> MonthOf(labelsSliced, j),
                         supply |-> supplyValues[j + 1],
                         demand |-> demandSliced[j + 1]])
            ELSE mismatches)

\* Math.min(supplyValues.length, demandSliced.length)
CompareLength(supplyValues, demandSliced) ==
    Min(Len(supplyValues), Len(demandSliced))

\* The mismatch labelled from the unsliced demand labels.
CompareUnslicedLabels(supplyValues, demandLabels, demandValues, idx) ==
    LET demandSliced == SliceFrom(demandValues, idx)
        compareLength == CompareLength(supplyValues, demandSliced)
    IN  [mismatches |-> CompareFrom(supplyValues, demandSliced, demandLabels,
                                    compareLength, 0, <<>>),
         comparedCount |-> compareLength]

\* alignAndCompare after startIdx was found.
Compare(supplyValues, demandLabels, demandValues, idx) ==
    LET demandSliced == SliceFrom(demandValues, idx)
        labelsSliced == SliceFrom(demandLabels, idx)
        compareLength == CompareLength(supplyValues, demandSliced)
    IN  [mismatches |-> CompareFrom(supplyValues, demandSliced, labelsSliced,
                                    compareLength, 0, <<>>),
         comparedCount |-> compareLength]

\* ------------------------------------------------------------------ actions
Fail(message) ==
    /\ status' = "failed"
    /\ error' = message
    /\ pc' = "done"

\* page.waitForSelector('text=Demand forecast') times out and throws.
SupplyTimeout ==
    /\ pc = "supply"
    /\ ~supplyPage.text
    /\ Fail("TimeoutError")
    /\ UNCHANGED <<checkboxVars, reporterVars, lostSalesVars, calls, now, pageVars, supplyData, lockStatus, grossSalesRows, i,
                   overlaps, allLabels, allValues, currentMonth, startIdx,
                   result, stdout>>

\* The call is made but its result is not awaited: nothing is captured.
ExtractSupplyNotAwaited ==
    /\ pc = "supply"
    /\ supplyPage.text
    /\ pc' = "lock"
    /\ calls' = Append(calls, "extractSupplyValues")
    /\ UNCHANGED <<checkboxVars, reporterVars, lostSalesVars, now, pageVars, supplyData, lockStatus,
                   grossSalesRows, i, overlaps, allLabels, allValues,
                   currentMonth, startIdx, result, status, error, stdout>>

\* const supplyData = await extractSupplyValues(page)
ExtractSupply ==
    /\ pc = "supply"
    /\ supplyPage.text
    /\ supplyData' = ExtractSupplyValues(supplyPage.tables)
    /\ pc' = "lock"
    /\ calls' = Append(calls, "extractSupplyValues")
    /\ UNCHANGED <<checkboxVars, reporterVars, lostSalesVars, now, pageVars, lockStatus, grossSalesRows, i, overlaps,
                   allLabels, allValues, currentMonth, startIdx, result,
                   status, error, stdout>>

\* Locked when both kinds of icon are on the page, the section there or not.
LockedByIcons(page) == page.lockIconCount > 0 /\ page.checkIconCount > 0

\* Locked when the section appeared and both kinds of icon are on the page.
Locked(page) ==
    IF ~page.section THEN FALSE
    ELSE page.lockIconCount > 0 /\ page.checkIconCount > 0

IsForecastLocked ==
    /\ pc = "lock"
    /\ lockStatus' = Locked(forecastsPage)
    /\ pc' = "demand"
    /\ calls' = Append(calls, "isForecastLocked")
    /\ UNCHANGED <<checkboxVars, reporterVars, lostSalesVars, now, pageVars, supplyData, grossSalesRows, i, overlaps,
                   allLabels, allValues, currentMonth, startIdx, result,
                   status, error, stdout>>

\* extractDemandData up to the sort.
ExtractGrossSalesRows ==
    /\ pc = "demand"
    /\ grossSalesRows' = SortByYear(EvaluateGrossSales(forecastsPage.tables))
    /\ i' = 0
    /\ pc' = "stitch"
    /\ calls' = Append(calls, "extractDemandData")
    /\ UNCHANGED <<checkboxVars, reporterVars, lostSalesVars, now, pageVars, supplyData, lockStatus, overlaps, allLabels,
                   allValues, currentMonth, startIdx, result, status, error,
                   stdout>>

\* One pass of the concatenation loop.
StitchRow ==
    /\ pc = "stitch"
    /\ i < Len(grossSalesRows)
    /\ LET row == grossSalesRows[i + 1]
           rowLabels == row.headers
       IN  IF i = 0
           THEN /\ allValues' = row.values
                /\ allLabels' = rowLabels
                /\ overlaps' = <<0>>
           ELSE LET overlap == Overlap(allLabels, rowLabels)
                IN  /\ allValues' = ConcatSliced(allValues, row.values, overlap)
                    /\ allLabels' = ConcatSliced(allLabels, rowLabels, overlap)
                    /\ overlaps' = Append(overlaps, overlap)
    /\ i' = i + 1
    /\ UNCHANGED <<checkboxVars, reporterVars, lostSalesVars, calls, now, pageVars, pc, supplyData, lockStatus, grossSalesRows,
                   currentMonth, startIdx, result, status, error, stdout>>

\* The first expectation that fails ends the test.
GuardFailure(supplyValues, labels, values, month) ==
    IF ~(Len(supplyValues) > 0) THEN "Supply extraction failed"
    ELSE IF ~(Len(values) > MinDemandValues) THEN "Demand extraction failed"
    ELSE IF Len(labels) # Len(values) THEN "Labels count must match values count"
    ELSE IF ~(IndexOf(labels, month) >= 0) THEN "Current month not found"
    ELSE ""

\* extractDemandData returns and the guard clauses run.
GuardClauses ==
    /\ pc = "stitch"
    /\ i = Len(grossSalesRows)
    /\ currentMonth' = now
    /\ LET failure == GuardFailure(supplyData.values, allLabels, allValues, now)
       IN  IF failure # "" THEN Fail(failure)
           ELSE /\ pc' = "align"
                /\ UNCHANGED <<status, error>>
    /\ UNCHANGED <<checkboxVars, reporterVars, lostSalesVars, calls, now, pageVars, supplyData, lockStatus, grossSalesRows, i,
                   overlaps, allLabels, allValues, startIdx, result, stdout>>

\* The month changes between the two calls of getCurrentMonth().
Tick ==
    /\ pc = "align"
    /\ now = currentMonth
    /\ now' = NextMonth(now)
    /\ UNCHANGED <<checkboxVars, reporterVars, lostSalesVars, calls, pageVars, pc, supplyData, lockStatus, grossSalesRows, i,
                   overlaps, allLabels, allValues, currentMonth, startIdx,
                   result, status, error, stdout>>

AlignAndCompare ==
    /\ pc = "align"
    /\ startIdx' = IndexOf(allLabels, now)
    /\ IF startIdx' = -1
       THEN /\ Fail("Current month not found in demand labels")
            /\ UNCHANGED result
       ELSE /\ result' = Compare(supplyData.values, allLabels, allValues, startIdx')
            /\ pc' = "count"
            /\ UNCHANGED <<status, error>>
    /\ calls' = Append(calls, "alignAndCompare")
    /\ UNCHANGED <<checkboxVars, reporterVars, lostSalesVars, now, pageVars, supplyData, lockStatus, grossSalesRows, i,
                   overlaps, allLabels, allValues, currentMonth, stdout>>

\* toBeGreaterThan(0) in the place of toBeGreaterThanOrEqual(12).
AnyCompared(comparedCount) == comparedCount > 0

\* expect(result.comparedCount).toBeGreaterThanOrEqual(12)
EnoughCompared(comparedCount) == comparedCount >= MinCompared

CheckComparedCount ==
    /\ pc = "count"
    /\ IF ~EnoughCompared(result.comparedCount)
       THEN Fail("Must compare at least 12 months")
       ELSE /\ pc' = "classify"
            /\ UNCHANGED <<status, error>>
    /\ UNCHANGED <<checkboxVars, reporterVars, lostSalesVars, calls, now, pageVars, supplyData, lockStatus, grossSalesRows, i,
                   overlaps, allLabels, allValues, currentMonth, startIdx,
                   result, stdout>>

\* Every mismatch fails the test, locked or not.
ClassificationIgnoringLock(locked, mismatches) ==
    IF Len(mismatches) # 0 THEN "failed" ELSE "passed"

\* The outcome of the final classification.
Classification(locked, mismatches) ==
    IF locked /\ Len(mismatches) # 0 THEN "failed" ELSE "passed"

Classify ==
    /\ pc = "classify"
    /\ status' = Classification(lockStatus, result.mismatches)
    /\ error' = IF status' = "failed"
                THEN "Locked forecast: Supply and Demand must match"
                ELSE ""
    /\ pc' = "done"
    /\ UNCHANGED <<checkboxVars, reporterVars, lostSalesVars, calls, now, pageVars, supplyData, lockStatus, grossSalesRows, i,
                   overlaps, allLabels, allValues, currentMonth, startIdx,
                   result, stdout>>

Next ==
    \/ SupplyTimeout
    \/ ExtractSupply
    \/ IsForecastLocked
    \/ ExtractGrossSalesRows
    \/ StitchRow
    \/ GuardClauses
    \/ Tick
    \/ AlignAndCompare
    \/ CheckComparedCount
    \/ Classify

Spec == Init /\ [][Next]_vars

\* ------------------------------------------- Lost Sales: the extraction
\* monthNames.includes(text) for text = textContent.trim().toUpperCase()
IsMonthName(text) ==
    LET upper == ToUpperCase(Trim(text))
    IN  Len(upper) = 1 /\ \E n \in 1..12 : MonthNames[n] = upper[1]

\* shortMonths[text]
ShortMonth(text) ==
    LET upper == ToUpperCase(Trim(text))
    IN  Months[CHOOSE n \in 1..12 : MonthNames[n] = upper[1]]

\* isNaN(num) ? 0 : num for num = parseInt(valText.replace(/,/g, ''))
ValueOrZero(text) ==
    LET num == ParseInt(RemoveCommas(Trim(text)))
    IN  IF num.nan THEN 0 ELSE num.num

\* The scan of the elements after a link from position p on: every h4 that
\* names a month gives a month and, when an element follows it, a value;
\* the scan ends at MonthsShown months and, over siblings (capped), after
\* MaxSiblings elements.
RECURSIVE ScanHeadings(_, _, _, _, _)
ScanHeadings(elements, p, months, values, capped) ==
    IF p > Len(elements) \/ (capped /\ p > MaxSiblings)
    THEN [months |-> months, values |-> values]
    ELSE LET found == elements[p].tag = "H4" /\ IsMonthName(elements[p].text)
             nextMonths == IF found
                           THEN Append(months, ShortMonth(elements[p].text))
                           ELSE months
             nextValues == IF found /\ p < Len(elements)
                           THEN Append(values, ValueOrZero(elements[p + 1].text))
                           ELSE values
         IN  IF Len(nextMonths) >= MonthsShown
             THEN [months |-> nextMonths, values |-> nextValues]
             ELSE ScanHeadings(elements, p + 1, nextMonths, nextValues, capped)

\* colorLinks.find(a => a.textContent?.trim() === targetColor), as an index
\* from 1, or 0.
RECURSIVE FindColorLink(_, _, _)
FindColorLink(links, targetColor, l) ==
    IF l > Len(links) THEN 0
    ELSE IF Trim(links[l].text) = <<targetColor>> THEN l
    ELSE FindColorLink(links, targetColor, l + 1)

ExtractMonitoringLostSales(links, targetColor) ==
    LET l == FindColorLink(links, targetColor, 1)
    IN  IF l = 0 THEN [months |-> <<>>, values |-> <<>>]
        ELSE ScanHeadings(links[l].elements, 1, <<>>, <<>>, ~links[l].row)

\* The page.evaluate of extractAllMonitoringColors from link l on.
RECURSIVE ColorDataFrom(_, _)
ColorDataFrom(links, l) ==
    IF l > Len(links) THEN <<>>
    ELSE LET link == links[l]
             colorName == Trim(link.text)
             data == ScanHeadings(link.elements, 1, <<>>, <<>>, FALSE)
         IN  IF /\ link.planning
                /\ colorName # <<>>
                /\ link.row
                /\ Len(data.months) = MonthsShown
                /\ Len(data.values) = MonthsShown
             THEN <<[color |-> colorName, months |-> data.months,
                     values |-> data.values]>> \o ColorDataFrom(links, l + 1)
             ELSE ColorDataFrom(links, l + 1)

\* The entries of colorMap in the order they were set.
ExtractAllMonitoringColors(links) == ColorDataFrom(links, 1)

\* allColors.has(color)
Has(colorMap, color) ==
    \E e \in 1..Len(colorMap) : colorMap[e].color = <<color>>

\* allColors.get(color): the entry set last.
Get(colorMap, color) ==
    LET last == CHOOSE e \in 1..Len(colorMap) :
                    /\ colorMap[e].color = <<color>>
                    /\ \A f \in (e + 1)..Len(colorMap) :
                          colorMap[f].color # <<color>>
    IN  [months |-> colorMap[last].months, values |-> colorMap[last].values]

\* monthPattern.test(text) for text = textContent.trim().toUpperCase()
MonthPattern(upper) ==
    /\ Len(upper) >= 6
    /\ upper[1] \in MonthSet
    /\ \A p \in 2..(Len(upper) - 4) : upper[p] = " "
    /\ \A p \in (Len(upper) - 3)..Len(upper) : upper[p] \in DigitSet

\* The header loop of extractPlanningLostSales from leaf l on.
RECURSIVE HeadersFrom(_, _, _)
HeadersFrom(leaves, l, seenMonths) ==
    IF l > Len(leaves) THEN <<>>
    ELSE LET text == ToUpperCase(Trim(leaves[l]))
         IN  IF MonthPattern(text) /\ text \notin seenMonths
             THEN <<text[1]>> \o HeadersFrom(leaves, l + 1, seenMonths \cup {text})
             ELSE HeadersFrom(leaves, l + 1, seenMonths)

\* ths.find(th => includes('Potential Lost Sales') && !includes('Replenishment')),
\* as an index from 1, or 0.
RECURSIVE FindPotentialLostSalesTh(_, _)
FindPotentialLostSalesTh(ths, t) ==
    IF t > Len(ths) THEN 0
    ELSE IF /\ Includes(ths[t].text, "Potential Lost Sales")
            /\ ~Includes(ths[t].text, "Replenishment")
    THEN t
    ELSE FindPotentialLostSalesTh(ths, t + 1)

\* The value loop over the buttons of the row.
RECURSIVE ButtonValues(_, _)
ButtonValues(buttons, b) ==
    IF b > Len(buttons) THEN <<>>
    ELSE LET num == ParseInt(RemoveCommas(Trim(buttons[b])))
         IN  IF ~num.nan THEN <<num.num>> \o ButtonValues(buttons, b + 1)
             ELSE ButtonValues(buttons, b + 1)

\* The page.evaluate of extractPlanningLostSales.
ExtractPlanningLostSales(page) ==
    LET t == FindPotentialLostSalesTh(page.ths, 1)
    IN  IF t = 0 \/ ~page.ths[t].row
        THEN [headers |-> <<>>, values |-> <<>>]
        ELSE [headers |-> SliceTo(HeadersFrom(page.leaves, 1, {}), MaxHeaders),
              values |-> ButtonValues(page.ths[t].buttons, 1)]

\* array[index], a list of one element, or the empty list for undefined.
At(array, index) ==
    IF index >= 0 /\ index < Len(array) THEN <<array[index + 1]>> ELSE <<>>

\* The last occurrence in the place of the first.
LastPlanningIndex(headers, month) == LastIndexOf(headers, month)

\* planningData.headers.indexOf(month)
PlanningIndex(headers, month) == IndexOf(headers, month)

\* The loop of compareValues from i on.
RECURSIVE MismatchesFrom(_, _, _)
MismatchesFrom(monitoring, planning, j) ==
    IF j >= Len(monitoring.months) THEN <<>>
    ELSE LET month == monitoring.months[j + 1]
             monitoringValue == At(monitoring.values, j)
             planningIndex == PlanningIndex(planning.headers, month)
             planningValue == At(planning.values, planningIndex)
         IN  IF planningIndex # -1 /\ monitoringValue # planningValue
             THEN <<[month |-> month, monitoring |-> monitoringValue,
                     planning |-> planningValue]>>
                  \o MismatchesFrom(monitoring, planning, j + 1)
             ELSE MismatchesFrom(monitoring, planning, j + 1)

CompareValues(monitoring, planning) ==
    LET mismatches == MismatchesFrom(monitoring, planning, 0)
    IN  [match |-> mismatches = <<>>, mismatches |-> mismatches]

\* ------------------------------------------------ Lost Sales: the actions
pages == <<monitoringPage, planningPage>>

Fails(text) ==
    /\ outcome' = "failed"
    /\ thrown' = text
    /\ step' = "done"

\* const lostSalesExists = ...; if (!lostSalesExists) test.skip()
Skip ==
    /\ step = "monitoring"
    /\ ~monitoringPage.lostSales
    /\ outcome' = "skipped"
    /\ step' = "done"
    /\ UNCHANGED <<checkboxVars, reporterVars, demandSupplyVars, pages, monitoringData, allColors,
                   planningData, comparison, thrown>>

\* The batch extraction is never turned to.
NeverFallsBack(data) == FALSE

\* if (monitoringData.months.length === 0)
FallsBack(data) == Len(data.months) = 0

\* const monitoringData = await extractMonitoringLostSales(page, color)
ExtractMonitoring ==
    /\ step = "monitoring"
    /\ monitoringPage.lostSales
    /\ monitoringData' = ExtractMonitoringLostSales(monitoringPage.links, Color)
    /\ step' = IF FallsBack(monitoringData') THEN "fallback" ELSE "expect"
    /\ UNCHANGED <<checkboxVars, reporterVars, demandSupplyVars, pages, allColors, planningData,
                   comparison, outcome, thrown>>

\* const allColors = await extractAllMonitoringColors(page) and the
\* assignment from allColors.get(color)
BatchFallback ==
    /\ step = "fallback"
    /\ LET colorMap == ExtractAllMonitoringColors(monitoringPage.links)
       IN  /\ allColors' = [called |-> TRUE, colorMap |-> colorMap]
           /\ monitoringData' = IF Has(colorMap, Color)
                                THEN Get(colorMap, Color)
                                ELSE monitoringData
    /\ step' = "expect"
    /\ UNCHANGED <<checkboxVars, reporterVars, demandSupplyVars, pages, planningData, comparison,
                   outcome, thrown>>

\* The two expectations on monitoringData.
ExpectMonitoring ==
    /\ step = "expect"
    /\ IF Len(monitoringData.months) # MonthsShown
       THEN Fails("Monitoring should show 3 months")
       ELSE IF Len(monitoringData.values) # MonthsShown
       THEN Fails("Monitoring should have 3 values")
       ELSE /\ step' = "planning"
            /\ UNCHANGED <<outcome, thrown>>
    /\ UNCHANGED <<checkboxVars, reporterVars, demandSupplyVars, pages, monitoringData, allColors,
                   planningData, comparison>>

\* A wait whose timeout is caught and passed over.
NeverThrows(page) == FALSE

\* page.waitForSelector('text=Potential Lost Sales', { timeout: 15000 })
\* throws when the text does not appear in time.
Throws(page) == ~page.text

\* The wait of extractPlanningLostSales times out: the error leaves the
\* function and the test body.
PlanningTimeout ==
    /\ step = "planning"
    /\ Throws(planningPage)
    /\ Fails("TimeoutError")
    /\ UNCHANGED <<checkboxVars, reporterVars, demandSupplyVars, pages, monitoringData, allColors,
                   planningData, comparison>>

\* const planningData = await extractPlanningLostSales(page)
ExtractPlanning ==
    /\ step = "planning"
    /\ ~Throws(planningPage)
    /\ planningData' = ExtractPlanningLostSales(planningPage)
    /\ step' = "expectPlanning"
    /\ UNCHANGED <<checkboxVars, reporterVars, demandSupplyVars, pages, monitoringData, allColors,
                   comparison, outcome, thrown>>

\* The two expectations on planningData.
ExpectPlanning ==
    /\ step = "expectPlanning"
    /\ IF ~(Len(planningData.headers) > 0)
       THEN Fails("Planning should have month headers")
       ELSE IF ~(Len(planningData.values) > 0)
       THEN Fails("Planning should have values")
       ELSE /\ step' = "compare"
            /\ UNCHANGED <<outcome, thrown>>
    /\ UNCHANGED <<checkboxVars, reporterVars, demandSupplyVars, pages, monitoringData, allColors,
                   planningData, comparison>>

\* const result = compareValues(...) and the final expectation.
CompareLostSales ==
    /\ step = "compare"
    /\ comparison' = CompareValues(monitoringData, planningData)
    /\ outcome' = IF Len(comparison'.mismatches) = 0 THEN "passed" ELSE "failed"
    /\ thrown' = IF outcome' = "failed"
                  THEN "lost sales values should match"
                  ELSE ""
    /\ step' = "done"
    /\ UNCHANGED <<checkboxVars, reporterVars, demandSupplyVars, pages, monitoringData, allColors,
                   planningData>>

LostSalesNext ==
    \/ Skip
    \/ ExtractMonitoring
    \/ BatchFallback
    \/ ExpectMonitoring
    \/ PlanningTimeout
    \/ ExtractPlanning
    \/ ExpectPlanning
    \/ CompareLostSales

\* The Lost Sales test next to a Demand = Supply test that has not started.
LostSalesSpec == LostSalesInit /\ [][LostSalesNext]_vars

\* ------------------------------------------------- the CSV of the results
\* The double quote and the line feed, as tokens of a text.
Quote == "quote"
LineFeed == "LF"

\* The words of the titles and what toLowerCase() makes of them.
Smalls ==
    [t \in {"Shirt", "Red", "LS", "Tops", "Home", "Garden"} |->
        IF t = "Shirt" THEN "shirt"
        ELSE IF t = "Red" THEN "red"
        ELSE IF t = "LS" THEN "ls"
        ELSE IF t = "Tops" THEN "tops"
        ELSE IF t = "Home" THEN "home"
        ELSE "garden"]

\* text.toLowerCase()
ToLowerCase(text) ==
    [p \in 1..Len(text) |->
        IF text[p] \in DOMAIN Smalls THEN Smalls[text[p]] ELSE text[p]]

\* A token of [a-z0-9].
IsSlugToken(c) ==
    c \in DigitSet \/ c \in {Smalls[t] : t \in DOMAIN Smalls} \/ c \in {"x", "verify"}

\* lower.replace(/[^a-z0-9]+/g, '-') from position p on.
RECURSIVE Dashed(_, _)
Dashed(lower, p) ==
    IF p > Len(lower) THEN <<>>
    ELSE IF IsSlugToken(lower[p]) THEN <<lower[p]>> \o Dashed(lower, p + 1)
    ELSE IF p > 1 /\ ~IsSlugToken(lower[p - 1]) THEN Dashed(lower, p + 1)
    ELSE <<"-">> \o Dashed(lower, p + 1)

\* testTitle.toLowerCase().replace(/[^a-z0-9]+/g, '-')
Slug(testTitle) == Dashed(ToLowerCase(testTitle), 1)

\* The number of blanks of the text from position p on.
RECURSIVE Blanks(_, _)
Blanks(text, p) ==
    IF p <= Len(text) /\ text[p] = " " THEN 1 + Blanks(text, p + 1) ELSE 0

\* testTitle.match(/^(.+?)\s+\/\s+(.+)$/) with a first group of k tokens or
\* more: the two groups, or none.
RECURSIVE TitleMatchFrom(_, _)
TitleMatchFrom(testTitle, k) ==
    IF k > Len(testTitle) THEN <<>>
    ELSE LET before == Blanks(testTitle, k + 1)
             slash == k + before + 1
             after == Blanks(testTitle, slash + 1)
             rest == SubSeq(testTitle, slash + after + 1, Len(testTitle))
         IN  IF before >= 1 /\ slash <= Len(testTitle) /\ testTitle[slash] = "/"
                /\ after >= 1 /\ (rest # <<>> \/ after >= 2)
             THEN <<SubSeq(testTitle, 1, k),
                    IF rest # <<>> THEN rest ELSE <<" ">>>>
             ELSE TitleMatchFrom(testTitle, k + 1)

\* decodeURIComponent(text)
DecodeURIComponent(text) ==
    [p \in 1..Len(text) |->
        IF text[p] = "%2C" THEN ","
        ELSE IF text[p] = "%20" THEN " "
        ELSE text[p]]

\* The Playwright status is recorded as it is.
StatusAsGiven(playwrightStatus) == playwrightStatus

\* The status the reporter gives a Playwright status.
StatusOf(playwrightStatus) ==
    IF playwrightStatus = "passed" THEN "passed"
    ELSE IF playwrightStatus = "skipped" THEN "skipped"
    ELSE "failed"

\* The record onTestEnd pushes for a test and its result; the result holds
\* what the patterns capture in its stdout, the empty text where a pattern
\* does not match.
Record(testTitle, testResult) ==
    LET match == TitleMatchFrom(testTitle, 1)
        logs == testResult.stdout
    IN  [timestamp |-> <<"T">>,
         test_name |-> testTitle,
         test_slug |-> Slug(testTitle),
         brand_key |-> DecodeURIComponent(logs.brand),
         department |-> DecodeURIComponent(logs.department),
         category |-> DecodeURIComponent(logs.category),
         class |-> DecodeURIComponent(logs.class),
         style |-> IF match # <<>> THEN match[1] ELSE testTitle,
         color |-> IF match # <<>> THEN match[2] ELSE <<>>,
         status |-> StatusOf(testResult.status),
         duration_ms |-> testResult.duration,
         error_message |-> testResult.error,
         monitoring_months |-> logs.months,
         monitoring_values |-> logs.values,
         planning_headers |-> logs.headers,
         planning_values |-> logs.planning]

\* The new record takes the place of the records so far.
KeepLatest(records, record) == <<record>>

\* this.results.push(record)
Push(records, record) == Append(records, record)

\* text.replace(/"/g, '""')
RECURSIVE DoubleQuotes(_)
DoubleQuotes(text) ==
    IF text = <<>> THEN <<>>
    ELSE (IF Head(text) = Quote THEN <<Quote, Quote>> ELSE <<Head(text)>>)
         \o DoubleQuotes(Tail(text))

\* `"${text.replace(/"/g, '""')}"`
Quoted(text) == <<Quote>> \o DoubleQuotes(text) \o <<Quote>>

\* The 16 values of a record in the order of the columns, as texts.
FieldValues(r) ==
    <<r.timestamp, r.test_name, r.test_slug, r.brand_key, r.department,
      r.category, r.class, r.style, r.color, <<r.status>>,
      ToText(r.duration_ms), r.error_message, r.monitoring_months,
      r.monitoring_values, r.planning_headers, r.planning_values>>

\* The 16 fields onEnd writes for a record.
Fields(r) ==
    <<r.timestamp, Quoted(r.test_name), r.test_slug, r.brand_key,
      r.department, r.category, r.class, Quoted(r.style), Quoted(r.color),
      <<r.status>>, ToText(r.duration_ms),
      IF r.error_message # <<>> THEN Quoted(r.error_message) ELSE <<>>,
      r.monitoring_months, r.monitoring_values, r.planning_headers,
      r.planning_values>>

\* parts.join(separator)
RECURSIVE Join(_, _)
Join(parts, separator) ==
    IF parts = <<>> THEN <<>>
    ELSE IF Len(parts) = 1 THEN parts[1]
    ELSE parts[1] \o separator \o Join(Tail(parts), separator)

Headers ==
    <<"timestamp", "test_name", "test_slug", "brand_key", "department",
      "category", "class", "style", "color", "status", "duration_ms",
      "error_message", "monitoring_months", "monitoring_values",
      "planning_headers", "planning_values">>

\* const csv = [headers.join(','), ...rows].join('\n')
Csv(records) ==
    Join(<<Join([h \in 1..16 |-> <<Headers[h]>>], <<",">>)>>
         \o [r \in 1..Len(records) |-> Join(Fields(records[r]), <<",">>)],
         <<LineFeed>>)

\* fs.writeFileSync(csvPath, csv)
WriteFileSync(file, records) == [exists |-> TRUE, content |-> Csv(records)]

\* ------------------------------------------------------------------ ingest
IsSpace(c) == c = " " \/ c = LineFeed

\* content.trim()
RECURSIVE TrimContent(_)
TrimContent(content) ==
    IF content = <<>> THEN <<>>
    ELSE IF IsSpace(Head(content)) THEN TrimContent(Tail(content))
    ELSE IF IsSpace(content[Len(content)])
    THEN TrimContent(SubSeq(content, 1, Len(content) - 1))
    ELSE content

\* text.split(separator): the parts between the separators of the text.
Split(text, separator) ==
    LET at == {p \in 1..Len(text) : text[p] = separator}
        nth(k) == IF k = 0 THEN 0
                  ELSE IF k > Cardinality(at) THEN Len(text) + 1
                  ELSE CHOOSE p \in at : Cardinality({q \in at : q < p}) = k - 1
    IN  [k \in 1..(Cardinality(at) + 1) |->
            SubSeq(text, nth(k - 1) + 1, nth(k) - 1)]

\* content.trim().split('\n')
Lines(content) == Split(TrimContent(content), LineFeed)

\* (?=\s*,|\s*$) at position p: blanks, then a comma or the end of the line.
Lookahead(line, p) ==
    LET q == p + Blanks(line, p)
    IN  q > Len(line) \/ line[q] = ","

\* ".*?" from the quote at position p: the position of the first later quote
\* the lookahead holds after, or 0.
RECURSIVE ClosingQuote(_, _)
ClosingQuote(line, q) ==
    IF q > Len(line) THEN 0
    ELSE IF line[q] = Quote /\ Lookahead(line, q + 1) THEN q
    ELSE ClosingQuote(line, q + 1)

\* [^,]+ from position p: the position after the last token of the run.
RECURSIVE RunEnd(_, _)
RunEnd(line, p) ==
    IF p > Len(line) \/ line[p] = "," THEN p ELSE RunEnd(line, p + 1)

\* line.match(/(".*?"|[^,]+)(?=\s*,|\s*$)/g) from position p on.
RECURSIVE MatchAll(_, _)
MatchAll(line, p) ==
    IF p > Len(line) THEN <<>>
    ELSE IF line[p] = Quote /\ ClosingQuote(line, p + 1) # 0
    THEN <<SubSeq(line, p, ClosingQuote(line, p + 1))>>
         \o MatchAll(line, ClosingQuote(line, p + 1) + 1)
    ELSE IF line[p] # ","
    THEN <<SubSeq(line, p, RunEnd(line, p) - 1)>> \o MatchAll(line, RunEnd(line, p))
    ELSE MatchAll(line, p + 1)

\* text.replace(/""/g, '"')
RECURSIVE SingleQuotes(_)
SingleQuotes(text) ==
    IF Len(text) >= 2 /\ text[1] = Quote /\ text[2] = Quote
    THEN <<Quote>> \o SingleQuotes(SubSeq(text, 3, Len(text)))
    ELSE IF text = <<>> THEN <<>>
    ELSE <<Head(text)>> \o SingleQuotes(Tail(text))

\* v.replace(/^"|"$/g, '').replace(/""/g, '"')
Unquote(v) ==
    LET start == IF v # <<>> /\ v[1] = Quote THEN Tail(v) ELSE v
        stripped == IF start # <<>> /\ start[Len(start)] = Quote
                    THEN SubSeq(start, 1, Len(start) - 1)
                    ELSE start
    IN  SingleQuotes(stripped)

\* const values = line.match(...)?.map(...) || []
ParseLine(line) ==
    LET matches == MatchAll(line, 1)
    IN  [v \in 1..Len(matches) |-> Unquote(matches[v])]

Null == [null |-> TRUE, text |-> <<>>]
Value(text) == [null |-> FALSE, text |-> text]

\* values[index] || other
Or(values, index, other) ==
    IF index < Len(values) /\ values[index + 1] # <<>>
    THEN Value(values[index + 1])
    ELSE other

\* parseInt(values[10]) || null
DurationOf(values) ==
    LET num == IF 10 < Len(values) THEN ParseInt(values[11]) ELSE NaN
    IN  IF num.nan \/ num.num = 0 THEN Null ELSE Value(ToText(num.num))

\* The parameters of the insert of a line.
Parameters(values) ==
    <<Or(values, 0, Value(<<"now">>)),
      Or(values, 1, Value(<<>>)),
      Or(values, 2, Value(<<>>)),
      Or(values, 3, Null),
      Or(values, 4, Null),
      Or(values, 5, Null),
      Or(values, 6, Null),
      Or(values, 7, Value(<<>>)),
      Or(values, 8, Value(<<>>)),
      Or(values, 9, Value(<<"failed">>)),
      DurationOf(values),
      Or(values, 11, Null),
      Or(values, 12, Null),
      Or(values, 13, Null),
      Or(values, 14, Null),
      Or(values, 15, Null)>>

\* CHECK (status IN ('passed', 'failed', 'skipped'))
StatusCheck(parameters) ==
    parameters[10].text \in {<<"passed">>, <<"failed">>, <<"skipped">>}

\* ------------------------------------------------------ the tests of a run
\* retries and workers of the configuration outside CI.
Retries == 1
Workers == 5

\* The least number of columns of a line ingest inserts.
MinColumns == 10

\* The number of tests of a parallel run.
MaxTests == 2

\* encodeURIComponent(text)
EncodeURIComponent(text) ==
    [p \in 1..Len(text) |->
        IF text[p] = "," THEN "%2C"
        ELSE IF text[p] = " " THEN "%20"
        ELSE text[p]]

\* The status of a Demand = Supply test that compared these series.
DemandSupplyStatus(locked, supplyValues, demandValues) ==
    LET compared == Compare(supplyValues, <<>>, demandValues, 0)
    IN  IF ~EnoughCompared(compared.comparedCount) THEN "failed"
        ELSE Classification(locked, compared.mismatches)

\* The status of a Lost Sales test that extracted these data.
LostSalesStatus(monitoring, planning) ==
    IF Len(monitoring.months) # MonthsShown THEN "failed"
    ELSE IF Len(planning.headers) = 0 THEN "failed"
    ELSE IF CompareValues(monitoring, planning).match THEN "passed"
    ELSE "failed"

\* The status Playwright gives an attempt of the test: that of its unit when
\* the unit ran to its end, else what ended it.
StatusOfAttempt(test) ==
    IF test.fate # "ran" THEN test.fate
    ELSE IF test.unit = "lostSales"
    THEN LostSalesStatus(test.monitoring, test.planning)
    ELSE DemandSupplyStatus(test.locked, test.supplyValues, test.demandValues)

\* The first line of the message of the error of an attempt.
ErrorOf(attemptStatus) ==
    IF attemptStatus = "failed" THEN <<"Error", ":", " ", Quote, "x", Quote>>
    ELSE IF attemptStatus = "timedOut" THEN <<"Timeout">>
    ELSE <<>>

\* numbers.join(', ')
JoinNumbers(numbers) ==
    Join([p \in 1..Len(numbers) |-> ToText(numbers[p])], <<",", " ">>)

\* names.join(', ')
JoinNames(names) == Join([p \in 1..Len(names) |-> <<names[p]>>], <<",", " ">>)

\* array.slice(0, 6)
FirstSix(array) == SubSeq(array, 1, Min(6, Len(array)))

\* What the patterns of the reporter capture in the output of an attempt of
\* a test run for the brand.
StdoutOf(test, brand) ==
    IF test.unit = "lostSales"
    THEN [brand |-> <<brand>>,
          department |-> EncodeURIComponent(test.department),
          category |-> <<"Tops">>,
          class |-> <<"Shirt">>,
          months |-> IF test.monitoring.months = <<>> THEN <<>>
                     ELSE JoinNames(test.monitoring.months),
          values |-> IF test.monitoring.months = <<>> THEN <<>>
                     ELSE JoinNumbers(test.monitoring.values),
          headers |-> JoinNames(FirstSix(test.planning.headers)),
          planning |-> JoinNumbers(FirstSix(test.planning.values))]
    ELSE [brand |-> <<>>, department |-> <<>>, category |-> <<>>,
          class |-> <<>>, months |-> <<>>, values |-> <<>>,
          headers |-> <<>>, planning |-> <<>>]

\* The result of an attempt of the test.
ResultOf(test, brand) ==
    [status |-> StatusOfAttempt(test),
     duration |-> test.duration,
     error |-> ErrorOf(StatusOfAttempt(test)),
     stdout |-> StdoutOf(test, brand)]

NoResult ==
    [status |-> "", duration |-> 0, error |-> <<>>,
     stdout |-> [brand |-> <<>>, department |-> <<>>, category |-> <<>>,
                 class |-> <<>>, months |-> <<>>, values |-> <<>>,
                 headers |-> <<>>, planning |-> <<>>]]

\* An attempt with this status is followed by another one.
Retried(attemptStatus, retry) ==
    attemptStatus \in {"failed", "timedOut"} /\ retry < Retries

\* The titles of the tests of a run, by position.
Titles ==
    <<<<"Shirt", " ", "/", " ", "Red">>,
      <<"Tops", " ", "/", " ", "Red">>,
      <<"LS", " ", "/", " ", "Red">>>>

\* A series of MinCompared values, the first one v.
Series(v) == [k \in 1..MinCompared |-> IF k = 1 THEN v ELSE 0]

NoData == [months |-> <<>>, values |-> <<>>]
NoPlanning == [headers |-> <<>>, values |-> <<>>]

\* A Demand = Supply test: its lock signal, its two series and what ends
\* its attempts.
DemandSupplyTest(locked, demandValues, fate) ==
    [unit |-> "demandSupply", title |-> Titles[1], locked |-> locked,
     supplyValues |-> Series(0), demandValues |-> demandValues,
     monitoring |-> NoData, planning |-> NoPlanning, department |-> <<>>,
     fate |-> fate, duration |-> 12]

\* A Lost Sales test: its title, its department, the data of its two pages,
\* what ends its attempts and how long they take.
LostSalesTest(title, department, monitoring, planning, fate, duration) ==
    [unit |-> "lostSales", title |-> title, locked |-> FALSE,
     supplyValues |-> <<>>, demandValues |-> <<>>,
     monitoring |-> monitoring, planning |-> planning,
     department |-> department, fate |-> fate, duration |-> duration]

Shown == [months |-> <<"SEP", "OCT", "NOV">>, values |-> <<0, 1, 2>>]

Planned(v) ==
    [headers |-> <<"SEP", "OCT", "NOV", "DEC", "JAN", "FEB">>,
     values |-> <<0, 1, v, 0, 0, 0>>]

\* The tests of a parallel run: Demand = Supply tests locked or not, their
\* series agreeing or not, one that times out and one that is interrupted,
\* and a Lost Sales test that is skipped.
ParallelTests ==
    {DemandSupplyTest(locked, Series(v), "ran") :
        locked \in BOOLEAN, v \in {0, 1}}
    \cup {DemandSupplyTest(FALSE, Series(0), fate) :
            fate \in {"timedOut", "interrupted"}}
    \cup {LostSalesTest(Titles[1], <<"Tops">>, NoData, NoPlanning, "skipped", 0)}

\* The tests whose rows are written: any title, department, data and end.
RowTests ==
    {LostSalesTest(title, department, Shown, Planned(v), "ran", duration) :
        title \in {Titles[1], <<"verify">>,
                   <<"Shirt", " ", Quote, "LS", Quote, " ", "/", " ", "Red">>},
        department \in {<<"Tops">>, <<"Home", ",", " ", "Garden">>},
        v \in {1, 2}, duration \in {0, 12}}
    \cup {LostSalesTest(Titles[1], <<"Tops">>, monitoring, NoPlanning, fate, 12) :
            monitoring \in {NoData, Shown}, fate \in {"ran", "timedOut"}}
    \cup {LostSalesTest(Titles[1], <<"Tops">>, NoData, NoPlanning, "skipped", 0),
          LostSalesTest(<<"verify">>, <<"Home", ",", " ", "Garden">>, NoData,
                        NoPlanning, "timedOut", 12),
          DemandSupplyTest(TRUE, Series(1), "ran")}

\* The tests of a brand of the script: one whose values agree or not.
BrandTests ==
    {LostSalesTest(Titles[1], <<"Tops">>, Shown, Planned(v), "ran", 12) :
        v \in {1, 2}}

\* The runs of the tests of at most n positions.
RECURSIVE TestsUpTo(_)
TestsUpTo(n) ==
    IF n = 0 THEN {<<>>}
    ELSE TestsUpTo(n - 1)
         \cup {Append(tests, [test EXCEPT !.title = Titles[n]]) :
                 tests \in {ts \in TestsUpTo(n - 1) : Len(ts) = n - 1},
                 test \in ParallelTests}

\* The brands of run-all-brands.sh in the order of its runs.
Brands == <<"uat-bocop", "industry-of-all-nations", "twillory-test">>

\* A file an earlier run left.
StaleFile ==
    [exists |-> TRUE,
     content |-> Csv(<<Record(Titles[3],
                              ResultOf(DemandSupplyTest(FALSE, Series(0), "ran"),
                                       "uat-bocop"))>>)]

\* A command starts: a parallel run of some tests, a run of one test, or
\* run-all-brands.sh with or without a file of an earlier run.
ReporterInit ==
    /\ \/ /\ shell = "idle"
          /\ runs \in {<<[brand |-> "uat-bocop", tests |-> tests]>> :
                         tests \in TestsUpTo(MaxTests) \ {<<>>}}
          /\ csvFile = [exists |-> FALSE, content |-> <<>>]
       \/ /\ shell = "idle"
          /\ runs \in {<<[brand |-> "uat-bocop", tests |-> <<test>>]>> :
                         test \in RowTests}
          /\ csvFile = [exists |-> FALSE, content |-> <<>>]
       \/ /\ shell = "start"
          /\ runs \in {[b \in 1..3 |-> [brand |-> Brands[b],
                                        tests |-> <<tests[b]>>]] :
                         tests \in [1..3 -> BrandTests]}
          /\ csvFile \in {[exists |-> FALSE, content |-> <<>>], StaleFile}
    /\ running = <<>>
    /\ results = <<>>
    /\ reported = <<>>
    /\ lineNo = 1
    /\ inserted = <<>>
    /\ errors = 0
    /\ now = "DEC"
    /\ supplyPage = [text |-> FALSE, tables |-> <<>>]
    /\ forecastsPage = [section |-> FALSE, lockIconCount |-> 0,
                        checkIconCount |-> 0, tables |-> <<>>]
    /\ Locals
    /\ monitoringPage = [lostSales |-> FALSE, links |-> <<>>]
    /\ planningPage = [text |-> FALSE, leaves |-> <<>>, ths |-> <<>>]
    /\ LostSalesLocals
    /\ CheckboxLocals

\* rm -f test_results.csv
RemoveOldResults ==
    /\ shell = "start"
    /\ csvFile' = [exists |-> FALSE, content |-> <<>>]
    /\ shell' = "idle"
    /\ UNCHANGED <<checkboxVars, demandSupplyVars, lostSalesVars, runs, running, results,
                   reported, lineNo, inserted, errors>>

\* npx playwright test: a reporter is constructed and the tests are queued.
StartRun ==
    /\ shell = "idle"
    /\ runs # <<>>
    /\ shell' = "playwright"
    /\ results' = <<>>
    /\ running' = [t \in 1..Len(Head(runs).tests) |->
                     [test |-> Head(runs).tests[t], brand |-> Head(runs).brand,
                      state |-> "queued", retry |-> 0, result |-> NoResult]]
    /\ UNCHANGED <<checkboxVars, demandSupplyVars, lostSalesVars, runs, reported, csvFile,
                   lineNo, inserted, errors>>

\* The number of tests a worker runs.
Busy == Cardinality({t \in 1..Len(running) : running[t].state = "running"})

\* A free worker takes a queued test.
BeginAttempt(t) ==
    /\ shell = "playwright"
    /\ running[t].state = "queued"
    /\ Busy < Workers
    /\ running' = [running EXCEPT ![t].state = "running"]
    /\ UNCHANGED <<checkboxVars, demandSupplyVars, lostSalesVars, shell, runs, results,
                   reported, csvFile, lineNo, inserted, errors>>

\* The worker of the test finishes its attempt.
FinishAttempt(t) ==
    /\ shell = "playwright"
    /\ running[t].state = "running"
    /\ running' = [running EXCEPT
                     ![t].state = "finished",
                     ![t].result = ResultOf(running[t].test, running[t].brand)]
    /\ UNCHANGED <<checkboxVars, demandSupplyVars, lostSalesVars, shell, runs, results,
                   reported, csvFile, lineNo, inserted, errors>>

\* onTestEnd(test, result) for a finished attempt; a failed attempt is
\* retried.
OnTestEnd(t) ==
    /\ shell = "playwright"
    /\ running[t].state = "finished"
    /\ results' = Push(results, Record(running[t].test.title, running[t].result))
    /\ reported' = Append(reported,
                          [brand |-> running[t].brand,
                           title |-> running[t].test.title,
                           retry |-> running[t].retry,
                           status |-> running[t].result.status])
    /\ running' = [running EXCEPT
                     ![t].state = IF Retried(running[t].result.status,
                                             running[t].retry)
                                  THEN "queued" ELSE "done",
                     ![t].retry = IF Retried(running[t].result.status,
                                             running[t].retry)
                                  THEN running[t].retry + 1
                                  ELSE running[t].retry]
    /\ UNCHANGED <<checkboxVars, demandSupplyVars, lostSalesVars, shell, runs, csvFile,
                   lineNo, inserted, errors>>

\* onEnd() once every test is done: the file is written and the run ends.
OnEnd ==
    /\ shell = "playwright"
    /\ \A t \in 1..Len(running) : running[t].state = "done"
    /\ csvFile' = WriteFileSync(csvFile, results)
    /\ shell' = "idle"
    /\ runs' = Tail(runs)
    /\ UNCHANGED <<checkboxVars, demandSupplyVars, lostSalesVars, running, results,
                   reported, lineNo, inserted, errors>>

\* ingest-results.ts starts after the last run: it leaves when there is no
\* file.
Ingest ==
    /\ shell = "idle"
    /\ runs = <<>>
    /\ shell' = IF csvFile.exists THEN "ingest" ELSE "exit"
    /\ lineNo' = 1
    /\ inserted' = <<>>
    /\ errors' = 0
    /\ UNCHANGED <<checkboxVars, demandSupplyVars, lostSalesVars, runs, running, results,
                   reported, csvFile>>

\* One turn of the loop over the lines after the header.
IngestLine ==
    /\ shell = "ingest"
    /\ lineNo < Len(Lines(csvFile.content))
    /\ LET values == ParseLine(Lines(csvFile.content)[lineNo + 1])
       IN  IF Len(values) < MinColumns
           THEN /\ errors' = errors + 1
                /\ UNCHANGED inserted
           ELSE IF StatusCheck(Parameters(values))
           THEN /\ inserted' = Append(inserted, Parameters(values))
                /\ UNCHANGED errors
           ELSE /\ errors' = errors + 1
                /\ UNCHANGED inserted
    /\ lineNo' = lineNo + 1
    /\ UNCHANGED <<checkboxVars, demandSupplyVars, lostSalesVars, shell, runs, running,
                   results, reported, csvFile>>

\* The loop ends.
IngestEnd ==
    /\ shell = "ingest"
    /\ lineNo >= Len(Lines(csvFile.content))
    /\ shell' = "done"
    /\ UNCHANGED <<checkboxVars, demandSupplyVars, lostSalesVars, runs, running, results,
                   reported, csvFile, lineNo, inserted, errors>>

ReporterNext ==
    \/ RemoveOldResults
    \/ StartRun
    \/ \E t \in 1..Len(running) : BeginAttempt(t)
    \/ \E t \in 1..Len(running) : FinishAttempt(t)
    \/ \E t \in 1..Len(running) : OnTestEnd(t)
    \/ OnEnd
    \/ Ingest
    \/ IngestLine
    \/ IngestEnd

ReporterSpec == ReporterInit /\ [][ReporterNext]_vars

\* ------------------------------------------------------------ Show year 2
\* What the evaluate of ensureShowYear2Checked returns: the data-state of
\* the checkbox button near the label, else the state of the input near it,
\* else the data-state of another element near it; nothing found when the
\* label or any such element is missing.
Detect(page) ==
    IF ~page.label \/ page.kind = "none" THEN [found |-> FALSE, state |-> "null"]
    ELSE IF page.kind = "button" THEN [found |-> TRUE, state |-> page.state]
    ELSE IF page.kind = "input"
    THEN [found |-> TRUE,
          state |-> IF page.state = "checked" THEN "checked" ELSE "unchecked"]
    ELSE [found |-> TRUE, state |-> "open"]

\* The state of the control after a click.
Toggle(state) == IF state = "checked" THEN "unchecked" ELSE "checked"

\* The page after a click on the label: the control changes state and, when
\* the page renders in time, the second year row is shown or hidden.
Clicked(page) ==
    [page EXCEPT !.state = Toggle(page.state),
                 !.yearRows = IF ~page.renders THEN page.yearRows
                              ELSE IF Toggle(page.state) = "checked" THEN 2
                              ELSE 1]

\* The pages extractDemandData may meet: the Stats by Year header there or
\* not, the loading overlay gone or not, the label there or not, the control
\* a checkbox button, an input, another element with a data-state or none of
\* them near the label, in any state, the table rendering in time or not.
StatsPages ==
    {[header |-> header, loading |-> loading, label |-> label, kind |-> kind,
      state |-> state, renders |-> renders,
      yearRows |-> IF state = "checked" THEN 2 ELSE 1] :
        header \in BOOLEAN, loading \in BOOLEAN, label \in BOOLEAN,
        kind \in {"button", "input", "state", "none"},
        state \in {"checked", "unchecked", "indeterminate"},
        renders \in BOOLEAN}

ShowYear2Init ==
    /\ statsPage \in StatsPages
    /\ checkboxState = [found |-> FALSE, state |-> "null"]
    /\ clicks = <<>>
    /\ place = "loading"
    /\ now = "DEC"
    /\ supplyPage = [text |-> FALSE, tables |-> <<>>]
    /\ forecastsPage = [section |-> FALSE, lockIconCount |-> 0,
                        checkIconCount |-> 0, tables |-> <<>>]
    /\ Locals
    /\ monitoringPage = [lostSales |-> FALSE, links |-> <<>>]
    /\ planningPage = [text |-> FALSE, leaves |-> <<>>, ths |-> <<>>]
    /\ LostSalesLocals
    /\ runs = <<>>
    /\ ReporterLocals

\* The wait for the loading overlay, whose timeout is caught, and the scroll
\* to the Stats by Year header, which throws when there is none.
ScrollToStats ==
    /\ place = "loading"
    /\ place' = IF statsPage.header THEN "evaluate" ELSE "thrown"
    /\ UNCHANGED <<demandSupplyVars, lostSalesVars, reporterVars, statsPage,
                   checkboxState, clicks>>

\* const checkboxState = await page.evaluate(...)
DetectCheckbox ==
    /\ place = "evaluate"
    /\ checkboxState' = Detect(statsPage)
    /\ place' = "decide"
    /\ UNCHANGED <<demandSupplyVars, lostSalesVars, reporterVars, statsPage,
                   clicks>>

\* The click on a control found unchecked.
ClickUnchecked ==
    /\ place = "decide"
    /\ checkboxState.found
    /\ checkboxState.state = "unchecked"
    /\ clicks' = Append(clicks, statsPage.state)
    /\ statsPage' = Clicked(statsPage)
    /\ place' = "wait"
    /\ UNCHANGED <<demandSupplyVars, lostSalesVars, reporterVars,
                   checkboxState>>

\* The wait for the second year row; its timeout is caught.
WaitForSecondRow ==
    /\ place = "wait"
    /\ place' = "done"
    /\ UNCHANGED <<demandSupplyVars, lostSalesVars, reporterVars, statsPage,
                   checkboxState, clicks>>

\* The fallback when nothing was found: a click on the label, whose failure
\* is caught.
BlindClick ==
    /\ place = "decide"
    /\ ~checkboxState.found
    /\ IF statsPage.label
       THEN /\ clicks' = Append(clicks, statsPage.state)
            /\ statsPage' = Clicked(statsPage)
       ELSE UNCHANGED <<clicks, statsPage>>
    /\ place' = "done"
    /\ UNCHANGED <<demandSupplyVars, lostSalesVars, reporterVars,
                   checkboxState>>

\* A control found in another state than unchecked is left alone.
LeaveAsFound ==
    /\ place = "decide"
    /\ checkboxState.found
    /\ checkboxState.state # "unchecked"
    /\ place' = "done"
    /\ UNCHANGED <<demandSupplyVars, lostSalesVars, reporterVars, statsPage,
                   checkboxState, clicks>>

ShowYear2Next ==
    \/ ScrollToStats
    \/ DetectCheckbox
    \/ ClickUnchecked
    \/ WaitForSecondRow
    \/ BlindClick
    \/ LeaveAsFound

ShowYear2Spec == ShowYear2Init /\ [][ShowYear2Next]_vars

\* ------------------------------------------------------------------ claims
\* Both extractions passed their guards, the pivot was found and at least
\* 12 months were compared.
ReachedClassification ==
    /\ Len(supplyData.values) > 0
    /\ Len(allValues) > 10
    /\ Len(allLabels) = Len(allValues)
    /\ startIdx >= 0
    /\ result.comparedCount >= 12

\* C1: once both extractions succeeded, the pivot was found and at least 12
\* months were compared, the finished unit has failed if and only if the
\* lock signal is true and the mismatch list is non-empty; it has passed in
\* every other case.
C1_FailsIffLockedMismatch ==
    (pc = "done" /\ ReachedClassification) =>
        /\ (status = "failed") <=> (lockStatus /\ result.mismatches # <<>>)
        /\ (status = "passed") <=> ~(lockStatus /\ result.mismatches # <<>>)

C1_Witness ==
    /\ pc = "done"
    /\ ReachedClassification
    /\ lockStatus
    /\ result.mismatches # <<>>
    /\ status = "failed"

\* What a finished unit leaves behind, and what a clean pass leaves behind.
Outcome == <<status, error, stdout>>
PassOutcome == <<"passed", "", <<>>>>

\* C2: an unlocked unit with mismatches ends Advisory: it has not failed,
\* its outcome differs from that of a pass, and every mismatch is recorded
\* for review.
C2_UnlockedMismatchIsAdvisory ==
    (pc = "done" /\ ReachedClassification /\ ~lockStatus
        /\ result.mismatches # <<>>) =>
        /\ status # "failed"
        /\ Outcome # PassOutcome
        /\ \A m \in 1..Len(result.mismatches) :
              \E l \in 1..Len(stdout) : stdout[l] = result.mismatches[m]

\* The positions (from 0) at which a label occurs.
Occurrences(labels, m) == {j \in 0..(Len(labels) - 1) : labels[j + 1] = m}

\* C3: the demand series is aligned at the lowest index at which the pivot
\* label occurs, never at a later occurrence.
C3_AlignsAtFirstOccurrence ==
    startIdx >= 0 =>
        /\ startIdx \in Occurrences(allLabels, now)
        /\ \A j \in Occurrences(allLabels, now) : startIdx <= j

C3_Witness ==
    /\ startIdx >= 0
    /\ Cardinality(Occurrences(allLabels, now)) >= 2
    /\ result.comparedCount >= 12

\* C4: at every compared position the supply header label equals the
\* demand label it is compared with.
C4_ComparedMonthsAgree ==
    startIdx >= 0 =>
        \A j \in 0..(result.comparedCount - 1) :
            j < Len(supplyData.headers) =>
                supplyData.headers[j + 1] = allLabels[startIdx + j + 1]

\* The positions (from 0) at which supply and aligned demand differ.
Differing ==
    {j \in 0..(Min(Len(supplyData.values), Len(allValues) - startIdx) - 1) :
        supplyData.values[j + 1] # allValues[startIdx + j + 1]}

\* C5: comparedCount is min(len(supply), len(demand) - p), and the mismatch
\* list holds, in ascending order of index, exactly one record for each
\* compared position whose values differ, carrying the index, the demand
\* label at p + index and both values.
C5_MismatchesExact ==
    startIdx >= 0 =>
        /\ result.comparedCount =
              Min(Len(supplyData.values), Len(allValues) - startIdx)
        /\ Len(result.mismatches) = Cardinality(Differing)
        /\ \A m \in 1..Len(result.mismatches) :
              LET rec == result.mismatches[m]
              IN  /\ rec.index \in Differing
                  /\ rec.month = allLabels[startIdx + rec.index + 1]
                  /\ rec.supply = supplyData.values[rec.index + 1]
                  /\ rec.demand = allValues[startIdx + rec.index + 1]
                  /\ m > 1 => result.mismatches[m - 1].index < rec.index

C5_Witness ==
    /\ startIdx > 0
    /\ Len(result.mismatches) >= 2
    /\ Len(result.mismatches) < result.comparedCount
    /\ result.comparedCount < Len(supplyData.values)

\* The label does not occur in the stitched demand labels.
Absent(m) == \A j \in 1..Len(allLabels) : allLabels[j] # m

ExtractionGuardsPassed ==
    /\ Len(supplyData.values) > 0
    /\ Len(allValues) > 10
    /\ Len(allLabels) = Len(allValues)

PivotErrors ==
    {"Current month not found", "Current month not found in demand labels"}

NoComparison ==
    /\ startIdx = -1
    /\ result = [mismatches |-> <<>>, comparedCount |-> 0]

\* C6 as stated: a unit that obtained demand labels and did not find the
\* pivot among them has failed with the report of the missing pivot, and
\* has compared nothing.
C6_MissingPivotReported ==
    (pc = "done" /\ currentMonth # "" /\ allLabels # <<>> /\ Absent(now)) =>
        /\ status = "failed"
        /\ error \in PivotErrors
        /\ NoComparison

\* C6 amended: a unit that obtained its demand labels and did not find the
\* pivot among them has failed, whatever the lock signal, and has compared
\* nothing; the failure reports the missing pivot when the three extraction
\* guards before the pivot check passed, and the first of those guards to
\* fail otherwise.
C6_MissingPivotFails ==
    (pc = "done" /\ currentMonth # "" /\ Absent(now)) =>
        /\ status = "failed"
        /\ NoComparison
        /\ ExtractionGuardsPassed => error \in PivotErrors
        /\ ~ExtractionGuardsPassed =>
              error = IF Len(supplyData.values) = 0
                      THEN "Supply extraction failed"
                      ELSE IF Len(allValues) <= 10
                      THEN "Demand extraction failed"
                      ELSE "Labels count must match values count"

C6_Witness ==
    /\ pc = "done"
    /\ currentMonth # ""
    /\ Absent(now)
    /\ ExtractionGuardsPassed
    /\ lockStatus
    /\ error = "Current month not found"

\* C7: a unit that compared fewer than 12 months has failed with the
\* insufficient-comparison failure, whatever the lock signal and the
\* mismatch list; the locked-mismatch failure is not the one reported.
C7_InsufficientComparisonFails ==
    (pc = "done" /\ startIdx >= 0 /\ result.comparedCount < 12) =>
        /\ status = "failed"
        /\ error = "Must compare at least 12 months"

C7_Witness ==
    /\ pc = "done"
    /\ startIdx >= 0
    /\ result.comparedCount < 12
    /\ result.comparedCount > 0
    /\ ~lockStatus
    /\ result.mismatches = <<>>
    /\ status = "failed"

\* The lengths k in 1..min(3, len(labels), len(rowLabels)) at which the last
\* k accumulated labels are the first k labels of the row.
MatchingLengths(labels, rowLabels) ==
    {k \in 1..Min(3, Min(Len(labels), Len(rowLabels))) :
        SubSeq(labels, Len(labels) - k + 1, Len(labels)) = SubSeq(rowLabels, 1, k)}

Largest(S) == IF S = {} THEN 0 ELSE CHOOSE k \in S : \A l \in S : l <= k

\* A pass of the concatenation loop over a row after the first.
LaterRowStitched == pc = "stitch" /\ i >= 1 /\ i' = i + 1

\* C8: for each row after the first, the overlap removed is the largest
\* matching length, 0 when there is none, and never more than 3.
C8_LargestOverlap ==
    [][LaterRowStitched =>
          /\ overlaps'[i'] =
                Largest(MatchingLengths(allLabels, grossSalesRows[i'].headers))
          /\ overlaps'[i'] <= 3]_vars

\* The second row was stitched with both k = 1 and k = 2 matching, not k = 3.
C8_Witness ==
    /\ pc = "stitch"
    /\ i = 2
    /\ MatchingLengths(grossSalesRows[1].headers, grossSalesRows[2].headers)
          = {1, 2}
    /\ overlaps[2] = 2

\* The rows 1..n of field f, each later row cut from its overlap onward.
RECURSIVE ConcatRows(_, _, _, _)
ConcatRows(rows, f, ks, n) ==
    IF n = 0 THEN <<>>
    ELSE ConcatRows(rows, f, ks, n - 1) \o
         (IF n = 1 THEN rows[1][f]
          ELSE SubSeq(rows[n][f], ks[n] + 1, Len(rows[n][f])))

RECURSIVE SumOf(_, _)
SumOf(f, n) == IF n = 0 THEN 0 ELSE SumOf(f, n - 1) + f[n]

\* C9: the stitched values are the first row's values followed, for each
\* later row in order, by that row's values from its overlap onward, and
\* likewise the labels; the output length is the sum of the input lengths
\* minus the total overlap removed.
C9_StitchedIsConcatenation ==
    i >= 1 =>
        /\ Len(overlaps) = i
        /\ allValues = ConcatRows(grossSalesRows, "values", overlaps, i)
        /\ allLabels = ConcatRows(grossSalesRows, "headers", overlaps, i)
        /\ Len(allValues) =
              SumOf([n \in 1..i |-> Len(grossSalesRows[n].values)], i)
              - SumOf(overlaps, i)
        /\ Len(allLabels) =
              SumOf([n \in 1..i |-> Len(grossSalesRows[n].headers)], i)
              - SumOf(overlaps, i)

\* Two rows of 12 values without overlap gave 24 values.
C9_Witness ==
    /\ i = 2
    /\ Len(grossSalesRows[1].values) = 12
    /\ Len(grossSalesRows[2].values) = 12
    /\ overlaps = <<0, 0>>
    /\ Len(allValues) = 24
    /\ allValues = grossSalesRows[1].values \o grossSalesRows[2].values

\* A run of consecutive months.
IsRun(labels) ==
    \A j \in 1..(Len(labels) - 1) : labels[j + 1] = NextMonth(labels[j])

NoRepeatWithin12(labels) ==
    \A a \in 1..Len(labels) : \A b \in 1..Len(labels) :
        (a < b /\ b - a < 12) => labels[a] # labels[b]

AllRowsAreRuns ==
    \A r \in 1..Len(grossSalesRows) : IsRun(grossSalesRows[r].headers)

\* C10 as stated: whenever every row's labels are a run of consecutive
\* months, the stitched labels are one continuous monthly sequence without
\* a repeat in any window of 12.
C10_StitchedIsContinuous ==
    (pc # "demand" /\ i >= 1 /\ i = Len(grossSalesRows) /\ AllRowsAreRuns) =>
        /\ IsRun(allLabels)
        /\ NoRepeatWithin12(allLabels)

\* The row starts k months, k in 0..3, before the month that follows the
\* last accumulated label, and the row and the accumulated labels both
\* have at least k labels.
BoundaryWithinCap(labels, rowLabels) ==
    \E k \in 0..3 :
        /\ k <= Len(labels)
        /\ k <= Len(rowLabels)
        /\ rowLabels[1] = MonthAt(MonthNumber(labels[Len(labels)]) + 13 - k)

\* C10 amended: the first row's labels are taken as they are, and stitching
\* a row whose labels are a run of consecutive months and start 0 to 3
\* months before the month after the last accumulated label onto
\* accumulated labels that are such a run again gives one continuous
\* monthly sequence without a repeat in any window of 12.
C10_ContinuousWithinCap ==
    [][(pc = "stitch" /\ i' = i + 1) =>
          IF i = 0 THEN allLabels' = grossSalesRows[1].headers
          ELSE (/\ IsRun(allLabels)
                /\ IsRun(grossSalesRows[i'].headers)
                /\ BoundaryWithinCap(allLabels, grossSalesRows[i'].headers))
               => (IsRun(allLabels') /\ NoRepeatWithin12(allLabels'))]_vars

\* Two runs overlapping in 3 months were stitched into one run.
C10_Witness ==
    /\ pc = "stitch"
    /\ i = 2
    /\ overlaps = <<0, 3>>
    /\ IsRun(grossSalesRows[1].headers)
    /\ IsRun(grossSalesRows[2].headers)
    /\ IsRun(allLabels)
    /\ Len(allLabels) > 12

\* extractDemandData has returned: every row has been stitched.
DemandReturned == pc \in {"stitch", "align", "count", "classify", "done"} /\
                  i = Len(grossSalesRows) /\ (i >= 1 \/ pc = "stitch")

\* C11: every row extract has as many labels as values, and so has the
\* stitched series extractDemandData returns, whether the header row has
\* fewer, as many or more month cells than a data row has numbers.
C11_LabelsMatchValues ==
    /\ \A r \in 1..Len(grossSalesRows) :
          Len(grossSalesRows[r].headers) = Len(grossSalesRows[r].values)
    /\ DemandReturned => Len(allLabels) = Len(allValues)

\* The row extracts of the page in page order, before the sort.
PageOrder == EvaluateGrossSales(forecastsPage.tables)

Orderings(n) ==
    {f \in [1..n -> 1..n] : \A a \in 1..n : \A b \in 1..n : a # b => f[a] # f[b]}

\* rows is pageOrder sorted by year, rows of one year in page order.
SortedStably(rows, pageOrder) ==
    /\ Len(rows) = Len(pageOrder)
    /\ \E f \in Orderings(Len(pageOrder)) :
          /\ \A k \in 1..Len(pageOrder) : rows[k] = pageOrder[f[k]]
          /\ \A k \in 1..Len(pageOrder) : \A l \in 1..Len(pageOrder) :
                k < l =>
                    /\ rows[k].year <= rows[l].year
                    /\ rows[k].year = rows[l].year => f[k] < f[l]

\* C12: the rows to stitch are the row extracts of the page in ascending
\* order of their first year, rows of the same year in the order of the
\* page, whatever the order of the page; the stitched series starts with
\* the row that comes first in that order.
C12_StitchedInYearOrder ==
    /\ (pc = "stitch" /\ i = 0) =>
          LET pageOrder == PageOrder IN SortedStably(grossSalesRows, pageOrder)
    /\ i >= 1 =>
          SubSeq(allValues, 1, Len(grossSalesRows[1].values))
              = grossSalesRows[1].values

\* The page lists the 2026 row above the 2025 row; the 2025 row was
\* stitched first.
C12_Witness ==
    /\ pc = "stitch"
    /\ i = 1
    /\ Len(grossSalesRows) = 2
    /\ grossSalesRows[1].year = 2025
    /\ grossSalesRows[2].year = 2026
    /\ allValues = grossSalesRows[1].values
    /\ LET pageOrder == PageOrder
       IN  /\ pageOrder[1] = grossSalesRows[2]
           /\ pageOrder[2] = grossSalesRows[1]

\* The rows of all tables, each by its cells, in page order.
RECURSIVE RowsOf(_)
RowsOf(tables) ==
    IF tables = <<>> THEN <<>>
    ELSE [r \in 1..Len(tables[1]) |-> Cells(tables[1][r])]
         \o RowsOf(Tail(tables))

\* The rows of the page whose text holds the phrase.
RowsHolding(tables, phrase) ==
    SelectSeq(RowsOf(tables), LAMBDA row : Includes(TextContent(row), phrase))

\* The number a cell spells, from its input when it has a value and from
\* its text otherwise.
CellNumber(cell) ==
    ParseInt(RemoveCommas(IF cell.input # <<>> THEN cell.input ELSE cell.text))

\* The numbers of the td cells of the row that do not hold the label and
\* spell a number, in cell order.
CellNumbers(row, label) ==
    LET cells == SelectSeq(TdCells(row),
                           LAMBDA cell : /\ ~Includes(cell.text, label)
                                         /\ ~CellNumber(cell).nan)
    IN  [c \in 1..Len(cells) |-> CellNumber(cells[c]).num]

\* The supply extraction has just returned from a page of one Demand
\* forecast row.
SupplyRowExtracted ==
    /\ pc = "lock"
    /\ Len(RowsHolding(supplyPage.tables, "Demand forecast")) = 1

SupplyRow == RowsHolding(supplyPage.tables, "Demand forecast")[1]

\* The demand extraction has just collected the only Gross sales row of the
\* page.
GrossRowExtracted ==
    /\ pc = "stitch"
    /\ i = 0
    /\ Len(grossSalesRows) = 1
    /\ Len(RowsHolding(forecastsPage.tables, "Gross sales")) = 1

GrossRow == RowsHolding(forecastsPage.tables, "Gross sales")[1]

InRange(v) == v >= 0 /\ v < 10000000

YearLike(v) == v >= 1900 /\ v <= 2100

C15_ParseableCellsKept ==
    /\ SupplyRowExtracted =>
          supplyData.values = CellNumbers(SupplyRow, "Demand forecast")
    /\ GrossRowExtracted =>
          grossSalesRows[1].values = CellNumbers(GrossRow, "Gross sales")

\* C15 amended: as stated for the Demand forecast row; the values of a Gross
\* sales row are the numbers >= 0 of its data cells that spell a number, in
\* cell order.
C15_ParseableCellsInOrder ==
    /\ SupplyRowExtracted =>
          supplyData.values = CellNumbers(SupplyRow, "Demand forecast")
    /\ GrossRowExtracted =>
          grossSalesRows[1].values =
              SelectSeq(CellNumbers(GrossRow, "Gross sales"), LAMBDA v : v >= 0)

\* A Gross sales row of a cell of letters and the cell 1,234 gave the one
\* value 1234.
C15_Witness ==
    /\ GrossRowExtracted
    /\ Len(GrossRow) = 3
    /\ GrossRow[2].text = <<"x">>
    /\ CellNumber(GrossRow[2]).nan
    /\ GrossRow[3].text = <<"1", ",", "2", "3", "4">>
    /\ grossSalesRows[1].values = <<1234>>

\* The month codes of the cells of the row whose text is a month code
\* (exact) or starts with one, in cell order.
MonthCells(row, exact) ==
    LET Matches(cell) ==
            LET upperText == ToUpperCase(Trim(cell.text))
            IN  /\ upperText # <<>>
                /\ upperText[1] \in MonthSet
                /\ exact => Len(upperText) = 1
        cells == SelectSeq(row, Matches)
    IN  [c \in 1..Len(cells) |-> ToUpperCase(Trim(cells[c].text))[1]]

\* The month cells of the topmost row of the table that has at least 6,
\* empty when no row has.
TopmostHeader(rows, exact) ==
    LET Qualifies(r) == Len(MonthCells(Cells(rows[r]), exact)) >= 6
    IN  IF \E r \in 1..Len(rows) : Qualifies(r)
        THEN MonthCells(Cells(rows[CHOOSE r \in 1..Len(rows) :
                                       /\ Qualifies(r)
                                       /\ \A q \in 1..(r - 1) : ~Qualifies(q)]),
                        exact)
        ELSE <<>>

\* C16: the labels of an extracted row are the first labels of the month
\* cells, in cell order, of the topmost row of its table that has at least 6
\* month cells; a row above it with fewer is passed over and no row below
\* it replaces it.
C16_HeaderIsTopmostMonthRow ==
    /\ (pc = "lock" /\ Len(supplyPage.tables) = 1
        /\ Len(RowsHolding(supplyPage.tables, "Demand forecast")) >= 1) =>
          supplyData.headers =
              SliceTo(TopmostHeader(supplyPage.tables[1], FALSE),
                      Len(supplyData.values))
    /\ (pc = "stitch" /\ i = 0) =>
          \A r \in 1..Len(grossSalesRows) :
              \E t \in 1..Len(forecastsPage.tables) :
                  grossSalesRows[r].headers =
                      SliceTo(TopmostHeader(forecastsPage.tables[t], TRUE),
                              Len(grossSalesRows[r].values))

\* A table of a row of five month cells, a row of six between other cells
\* and a row of seven below it: the labels are the six of the second row.
C16_Witness ==
    /\ pc = "stitch"
    /\ i = 0
    /\ Len(forecastsPage.tables) = 1
    /\ Len(forecastsPage.tables[1]) = 4
    /\ MonthCells(Cells(forecastsPage.tables[1][1]), TRUE) = Run(1, 5)
    /\ MonthCells(Cells(forecastsPage.tables[1][2]), TRUE) = Run(10, 6)
    /\ Len(Cells(forecastsPage.tables[1][2])) = 9
    /\ MonthCells(Cells(forecastsPage.tables[1][3]), TRUE) = Run(4, 7)
    /\ Len(grossSalesRows) = 1
    /\ grossSalesRows[1].headers = Run(10, 6)

\* The positions of the bracketed year ranges that follow Gross sales in
\* the text; with direct, those only that no other opening bracket
\* separates from Gross sales.
RangesAfterGrossSales(text, direct) ==
    {q \in 1..Len(text) :
        /\ RangeAt(text, q)
        /\ \E p \in 1..(q - 1) :
              /\ text[p] = "Gross sales"
              /\ direct => \A j \in (p + 1)..(q - 1) : text[j] # "["}

\* The text of a year row: Gross sales, neither (LY) nor (LLY), and a year
\* range after Gross sales.
YearRowText(text, direct) ==
    /\ Includes(text, "Gross sales")
    /\ ~Includes(text, "(LY)")
    /\ ~Includes(text, "(LLY)")
    /\ RangesAfterGrossSales(text, direct) # {}

\* The first year of the first range after Gross sales.
FirstYearOf(text, direct) ==
    LET ranges == RangesAfterGrossSales(text, direct)
        q == CHOOSE a \in ranges : \A b \in ranges : a <= b
    IN  1000 * DigitValue(text[q + 1]) + 100 * DigitValue(text[q + 2])
        + 10 * DigitValue(text[q + 3]) + DigitValue(text[q + 4])

\* With values, a row contributes when its text is that of a year row with
\* the range directly after Gross sales, it holds at least one number >= 0
\* and its table has a header row; without, when its text is that of a
\* year row.
RowContributes(row, table, values) ==
    /\ YearRowText(TextContent(Cells(row)), values)
    /\ values =>
          /\ \E c \in 1..Len(CellNumbers(Cells(row), "Gross sales")) :
                CellNumbers(Cells(row), "Gross sales")[c] >= 0
          /\ TopmostHeader(table, TRUE) # <<>>

\* The first years of the rows of the tables that contribute, in page
\* order.
RECURSIVE YearsOfRows(_, _)
YearsOfRows(tables, values) ==
    IF tables = <<>> THEN <<>>
    ELSE LET rows == SelectSeq(tables[1],
                               LAMBDA row : RowContributes(row, tables[1], values))
         IN  [r \in 1..Len(rows) |->
                 FirstYearOf(TextContent(Cells(rows[r])), values)]
             \o YearsOfRows(Tail(tables), values)

\* The first years of the row extracts are the years, put in ascending
\* order.
YearsExtracted(years) ==
    /\ Len(grossSalesRows) = Len(years)
    /\ \E f \in Orderings(Len(years)) :
          \A k \in 1..Len(years) : grossSalesRows[k].year = years[f[k]]

\* C17 as stated: the row extracts are those of the rows, of every table,
\* whose text holds Gross sales, neither (LY) nor (LLY), and a bracketed
\* year range after Gross sales, each with the first year of its range.
C17_YearRowsByText ==
    (pc = "stitch" /\ i = 0) =>
        YearsExtracted(YearsOfRows(forecastsPage.tables, FALSE))

\* C17 amended: the row extracts are those of the rows, of every table,
\* whose text holds Gross sales, neither (LY) nor (LLY), and a bracketed
\* year range that is the first bracket after Gross sales, that hold at
\* least one number >= 0 and whose table has a header row; each has the
\* first year of its range.
C17_YearRowsWithValues ==
    (pc = "stitch" /\ i = 0) =>
        YearsExtracted(YearsOfRows(forecastsPage.tables, TRUE))

\* Of a (LY) row with a 2024 range and a row with a 2026 range under one
\* header, the second alone was extracted.
C17_Witness ==
    /\ pc = "stitch"
    /\ i = 0
    /\ Len(forecastsPage.tables) = 1
    /\ Len(forecastsPage.tables[1]) = 3
    /\ Includes(TextContent(Cells(forecastsPage.tables[1][2])), "(LY)")
    /\ RangesAfterGrossSales(TextContent(Cells(forecastsPage.tables[1][2])),
                             TRUE) # {}
    /\ Includes(TextContent(Cells(forecastsPage.tables[1][3])), EnDash)
    /\ Len(grossSalesRows) = 1
    /\ grossSalesRows[1].year = 2026
    /\ grossSalesRows[1].values = <<230, 231>>

\* What the targeted extraction returns on the page, what the batch
\* extraction returns, and the messages of the two expectations on
\* monitoringData.
Targeted == ExtractMonitoringLostSales(monitoringPage.links, Color)
Batch == ExtractAllMonitoringColors(monitoringPage.links)
ExtractionErrors ==
    {"Monitoring should show 3 months", "Monitoring should have 3 values"}

\* The test has gone past the fallback.
PastFallback ==
    step \in {"expect", "planning", "expectPlanning", "compare", "done"}
        /\ outcome # "skipped"

\* monitoringData is the entry of the colour that the batch result set last.
HoldsBatchEntry(colorMap) ==
    \E e \in 1..Len(colorMap) :
        /\ colorMap[e].color = <<Color>>
        /\ \A f \in (e + 1)..Len(colorMap) : colorMap[f].color # <<Color>>
        /\ monitoringData.months = colorMap[e].months
        /\ monitoringData.values = colorMap[e].values
        /\ Len(monitoringData.months) = 3
        /\ Len(monitoringData.values) = 3

\* C18: when the targeted extraction of the colour returned zero months, the
\* batch extraction of all colours has been run before the test goes on to
\* its expectations and so before it can fail; when the batch result holds
\* the colour, monitoringData holds the months and values of that entry,
\* and otherwise it stays the empty result; the test has failed for
\* extraction only with monitoringData short of three months or three
\* values, and after zero targeted months only with the batch extraction
\* run and the colour not in its result.
C18_BatchFallbackBeforeFailure ==
    LET targeted == Targeted
        batch == Batch
        zero == Len(targeted.months) = 0
    IN  /\ (PastFallback /\ zero) =>
              /\ allColors.called
              /\ allColors.colorMap = batch
              /\ IF \E e \in 1..Len(batch) : batch[e].color = <<Color>>
                 THEN HoldsBatchEntry(batch)
                 ELSE monitoringData = targeted
        /\ (step = "done" /\ outcome = "failed" /\ thrown \in ExtractionErrors) =>
              /\ Len(monitoringData.months) # 3 \/ Len(monitoringData.values) # 3
              /\ zero => /\ allColors.called
                         /\ \A e \in 1..Len(batch) : batch[e].color # <<Color>>

\* The first link of the colour stands outside any row and no month follows
\* it, the batch extraction found the colour in a row of the table, and the
\* test has passed on its three months.
C18_Witness ==
    /\ step = "done"
    /\ outcome = "passed"
    /\ Len(Targeted.months) = 0
    /\ allColors.called
    /\ Len(allColors.colorMap) = 1
    /\ monitoringData = [months |-> <<"SEP", "OCT", "NOV">>,
                         values |-> <<0, 1, 2>>]

CallOrder == <<"extractSupplyValues", "isForecastLocked", "extractDemandData",
               "alignAndCompare">>

\* C20: the calls of a unit are made in the order extractSupplyValues,
\* isForecastLocked, extractDemandData, alignAndCompare, each at most once;
\* when the demand extraction begins, supplyData holds what the supply
\* extraction returns and the lock signal has been read; the comparison is
\* called only with the lock signal read, the stitched series complete and
\* supplyData still what the supply extraction returned.
C20_SequentialExtraction ==
    /\ Len(calls) <= 4
    /\ calls = SubSeq(CallOrder, 1, Len(calls))
    /\ pc \in {"demand", "align"} =>
          supplyData = ExtractSupplyValues(supplyPage.tables)
    /\ pc = "demand" =>
          /\ Len(calls) = 2
          /\ lockStatus = Locked(forecastsPage)
    /\ pc \in {"stitch", "align"} => Len(calls) = 3
    /\ Len(calls) = 4 =>
          /\ i = Len(grossSalesRows)
          /\ lockStatus = Locked(forecastsPage)
          /\ Len(supplyData.values) > 0
          /\ Len(allValues) > 10

\* A unit has made its four calls and passed.
C20_Witness ==
    /\ pc = "done"
    /\ calls = CallOrder
    /\ status = "passed"
    /\ lockStatus
    /\ result.comparedCount >= 12

\* The index (from 0) of the first occurrence of the month in the headers,
\* as a set: empty when the month does not occur.
FirstOccurrence(headers, month) ==
    {p \in 0..(Len(headers) - 1) :
        /\ headers[p + 1] = month
        /\ \A q \in 0..(p - 1) : headers[q + 1] # month}

\* The monitoring month at index j (from 0) was located in the planning
\* headers and its value is the planning value at the first occurrence.
MonthAgrees(j) ==
    \E p \in FirstOccurrence(planningData.headers, monitoringData.months[j + 1]) :
        /\ p < Len(planningData.values)
        /\ j < Len(monitoringData.values)
        /\ monitoringData.values[j + 1] = planningData.values[p + 1]

\* C21: a Lost Sales test that has passed located each of its three
\* monitoring months in the planning headers and found its monitoring value
\* equal to the planning value of that month; no month was left uncompared.
C21_PassedComparedEveryMonth ==
    (step = "done" /\ outcome = "passed") =>
        /\ Len(monitoringData.months) = 3
        /\ \A j \in 0..2 : MonthAgrees(j)

\* The months (from 0) of monitoringData that compareValues has to report.
DifferingMonths ==
    {j \in 0..(Len(monitoringData.months) - 1) :
        /\ FirstOccurrence(planningData.headers, monitoringData.months[j + 1]) # {}
        /\ ~MonthAgrees(j)}

\* The mismatch list names exactly the months of the set, in their order.
Reports(mismatches, differing) ==
    /\ Len(mismatches) = Cardinality(differing)
    /\ \A m \in 1..Len(mismatches) :
          \E j \in differing :
              /\ Cardinality({l \in differing : l < j}) = m - 1
              /\ mismatches[m].month = monitoringData.months[j + 1]
              /\ mismatches[m].monitoring = At(monitoringData.values, j)
              /\ \E p \in FirstOccurrence(planningData.headers,
                                          monitoringData.months[j + 1]) :
                    mismatches[m].planning = At(planningData.values, p)

\* C22: after compareValues the mismatch list holds, in the order of the
\* monitoring months, exactly the months that occur in the planning headers
\* and whose monitoring value differs from the planning value at the first
\* occurrence of the month, each with the two values; match is true exactly
\* when the list is empty.
C22_FirstOccurrenceCompared ==
    (step = "done" /\ outcome \in {"passed", "failed"}
        /\ thrown \in {"", "lost sales values should match"}) =>
        /\ Reports(comparison.mismatches, DifferingMonths)
        /\ comparison.match <=> comparison.mismatches = <<>>

\* SEP, OCT and NOV occur twice in the 18 planning headers, with other
\* values the second time, and the test has passed on the first.
C22_Witness ==
    /\ step = "done"
    /\ outcome = "passed"
    /\ Len(planningData.headers) = 18
    /\ \A j \in 1..3 :
          /\ LastIndexOf(planningData.headers, monitoringData.months[j])
                # IndexOf(planningData.headers, monitoringData.months[j])
          /\ planningData.values[
                LastIndexOf(planningData.headers, monitoringData.months[j]) + 1]
                # monitoringData.values[j]

\* The commands of the shell have all run.
AllRunsOver == shell = "idle" /\ runs = <<>> /\ reported # <<>>

\* The rows of test_results.csv, the header left out.
Rows == Tail(Lines(csvFile.content))

\* The row was written for an attempt of a run of the brand.
RowOfBrand(row, brand) == \E p \in 1..Len(row) : row[p] = brand

\* C23: once run-all-brands.sh has run its three brand runs, the file
\* test_results.csv holds one row for every attempt the three runs reported,
\* and at least one row of each of the three brands.
C23_FileHoldsAllRuns ==
    (AllRunsOver /\ Len(reported) >= 3
        /\ \A b \in 1..3 : \E k \in 1..Len(reported) : reported[k].brand = Brands[b]) =>
        /\ csvFile.exists
        /\ Len(Rows) = Len(reported)
        /\ \A b \in 1..3 : \E r \in 1..Len(Rows) : RowOfBrand(Rows[r], Brands[b])

\* The number of attempts of the tests of the run whose end was reported.
RECURSIVE AttemptsReported(_)
AttemptsReported(t) ==
    IF t = 0 THEN 0
    ELSE AttemptsReported(t - 1) + running[t].retry
         + (IF running[t].state = "done" THEN 1 ELSE 0)

\* The verdict of a Demand = Supply test from its own lock signal and series.
OwnVerdict(test) ==
    IF test.locked /\ test.supplyValues # test.demandValues
    THEN "failed" ELSE "passed"

\* The test of the run with the title.
TestTitled(title) ==
    running[CHOOSE t \in 1..Len(running) : running[t].test.title = title].test

\* C24: while the tests of a run are attempted by several workers and end in
\* any order, the reporter holds one record for every attempt whose end was
\* reported, in the order of the reports and with the title and the status
\* of the attempt, and the status of a Demand = Supply test that ran to its
\* end is the verdict of its own lock signal and series, whatever the other
\* tests of the run are.
C24_OneRecordPerAttempt ==
    LET n == Len(results)
        before == Len(reported) - n
    IN  /\ n = AttemptsReported(Len(running))
        /\ before >= 0
        /\ \A k \in 1..n :
              /\ results[k].test_name = reported[before + k].title
              /\ results[k].status = StatusOf(reported[before + k].status)
              /\ LET test == TestTitled(results[k].test_name)
                 IN  (test.unit = "demandSupply" /\ test.fate = "ran") =>
                        results[k].status = OwnVerdict(test)

\* Two tests of a run are done, the second one ended first; one test passed
\* and the other failed twice, and the reporter holds the three records.
C24_Witness ==
    /\ Len(running) = 2
    /\ \A t \in 1..2 : running[t].state = "done"
    /\ Len(results) = 3
    /\ results[1].test_name = Titles[2]
    /\ results[1].status = "failed"
    /\ results[2].test_name = Titles[1]
    /\ results[2].status = "passed"
    /\ results[3].test_name = Titles[2]

Statuses == {"passed", "failed", "skipped"}

\* The status the claim gives a Playwright outcome.
Mapped(playwrightStatus) ==
    CASE playwrightStatus = "passed" -> "passed"
      [] playwrightStatus = "skipped" -> "skipped"
      [] playwrightStatus \in {"failed", "timedOut", "interrupted"} -> "failed"

\* The lines of the file whose tenth value is empty.
EmptyStatusRows ==
    {l \in 1..Len(Rows) :
        /\ Len(ParseLine(Rows[l])) >= MinColumns
        /\ ParseLine(Rows[l])[10] = <<>>}

C30_RoundTrip ==
    (csvFile.exists /\ csvFile.content = Csv(results)) =>
        \A k \in 1..Len(results) :
            ParseLine(Rows[k]) = FieldValues(results[k])

\* The first row of the table with at least MinHeaderCells month cells.
HeaderRowOf(rows, exact) ==
    rows[CHOOSE r \in 1..Len(rows) :
            /\ Len(PotentialHeaders(Cells(rows[r]), exact)) >= MinHeaderCells
            /\ \A q \in 1..(r - 1) :
                  Len(PotentialHeaders(Cells(rows[q]), exact)) < MinHeaderCells]

\* The header row is one of month cells over the data columns, or a row of
\* cells whose first cell, over the row labels, holds no month.
HasCorner(row, exact) ==
    \/ "months" \in DOMAIN row
    \/ /\ "cells" \in DOMAIN row
       /\ PotentialHeaders(<<row.cells[1]>>, exact) = <<>>

\* The data columns of the month cells of the header row, in cell order;
\* column 0 is the column of the row labels.
LabelColumns(row, exact) ==
    IF "months" \in DOMAIN row THEN [k \in 1..Len(row.months) |-> k]
    ELSE LET at == SelectSeq([p \in 1..Len(row.cells) |-> p],
                             LAMBDA p : PotentialHeaders(<<row.cells[p]>>, exact)
                                            # <<>>)
         IN  [k \in 1..Len(at) |-> at[k] - 1]

\* The data columns of the cells of the row that gave a value, in cell
\* order: the td cells that do not hold the label and spell a number, one
\* >= 0 when only those are taken.
ValueColumns(cells, label, positive) ==
    LET at == SelectSeq([p \in 1..Len(cells) |-> p],
                        LAMBDA p : /\ cells[p].tag = "td"
                                   /\ ~Includes(cells[p].text, label)
                                   /\ ~CellNumber(cells[p]).nan
                                   /\ positive => CellNumber(cells[p]).num >= 0)
    IN  [k \in 1..Len(at) |-> at[k] - 1]

\* C25: in the extract of a row, the value at every index was read from the
\* column of the header cell that gave the label at that index, also when a
\* cell of the row was skipped or a column has no month header.
C25_ValueUnderItsLabel ==
    /\ (/\ GrossRowExtracted
        /\ Len(forecastsPage.tables) = 1
        /\ HasCorner(HeaderRowOf(forecastsPage.tables[1], TRUE), TRUE)) =>
          \A k \in 1..Len(grossSalesRows[1].headers) :
              ValueColumns(GrossRow, "Gross sales", TRUE)[k]
                  = LabelColumns(HeaderRowOf(forecastsPage.tables[1], TRUE), TRUE)[k]
    /\ (/\ SupplyRowExtracted
        /\ Len(supplyPage.tables) = 1
        /\ supplyData.headers # <<>>
        /\ HasCorner(HeaderRowOf(supplyPage.tables[1], FALSE), FALSE)) =>
          \A k \in 1..Len(supplyData.headers) :
              ValueColumns(SupplyRow, "Demand forecast", FALSE)[k]
                  = LabelColumns(HeaderRowOf(supplyPage.tables[1], FALSE), FALSE)[k]

\* The greatest k up to MaxOverlap for which the last k labels of the series
\* are the first k labels of the row, 0 when there is none.
BoundaryMonths(labels, rowLabels) ==
    LET ks == {k \in 1..MaxOverlap :
                 /\ k <= Len(labels)
                 /\ k <= Len(rowLabels)
                 /\ SubSeq(labels, Len(labels) - k + 1, Len(labels))
                        = SubSeq(rowLabels, 1, k)}
    IN  IF ks = {} THEN 0 ELSE CHOOSE k \in ks : \A other \in ks : other <= k

\* C26: a pass of the stitcher over a later row leaves every value of the
\* series so far in place, those of the boundary months included, and adds
\* the values of the row after its first k, k being the overlap of the
\* labels alone; the values of the row at the boundary months are dropped
\* whether or not they are those of the series.
C26_BoundaryKeepsEarlierRow ==
    [][(pc = "stitch" /\ i > 0 /\ i < Len(grossSalesRows)) =>
          LET row == grossSalesRows[i + 1]
              k == BoundaryMonths(allLabels, row.headers)
          IN  /\ Len(allValues') = Len(allValues) + Len(row.values) - k
              /\ \A p \in 1..Len(allValues) : allValues'[p] = allValues[p]
              /\ \A p \in 1..(Len(row.values) - k) :
                    allValues'[Len(allValues) + p] = row.values[k + p]]_vars

\* Two rows were stitched over boundary months at which the later row holds
\* other values than the earlier one, and the series holds the earlier ones.
C26_Witness ==
    /\ pc = "stitch"
    /\ i = 2
    /\ Len(grossSalesRows) = 2
    /\ overlaps[2] >= 1
    /\ Len(grossSalesRows[1].values) >= overlaps[2]
    /\ \A p \in 1..overlaps[2] :
          /\ grossSalesRows[2].values[p]
                # grossSalesRows[1].values[Len(grossSalesRows[1].values)
                                            - overlaps[2] + p]
          /\ allValues[Len(grossSalesRows[1].values) - overlaps[2] + p]
                = grossSalesRows[1].values[Len(grossSalesRows[1].values)
                                            - overlaps[2] + p]

\* isForecastLocked has returned.
LockRead == \E c \in 1..Len(calls) : calls[c] = "isForecastLocked"

\* C27: once read, the lock signal is true exactly when the Forecast
\* Predictions section appeared and the page holds at least one lock icon and
\* at least one check icon; a unit whose section did not appear is unlocked,
\* and when it reaches the classification it passes, mismatches or not.
C27_LockNeedsSectionAndIcons ==
    /\ LockRead =>
          (lockStatus <=> /\ forecastsPage.section
                          /\ forecastsPage.lockIconCount >= 1
                          /\ forecastsPage.checkIconCount >= 1)
    /\ (LockRead /\ ~forecastsPage.section) => ~lockStatus
    /\ (pc = "done" /\ ReachedClassification /\ ~forecastsPage.section) =>
          status = "passed"

\* The section did not appear on a page that holds lock and check icons, and
\* the unit has passed with mismatches.
C27_Witness ==
    /\ pc = "done"
    /\ ReachedClassification
    /\ ~forecastsPage.section
    /\ forecastsPage.lockIconCount >= 1
    /\ forecastsPage.checkIconCount >= 1
    /\ result.mismatches # <<>>
    /\ ~lockStatus
    /\ status = "passed"

\* The state of the control when ensureShowYear2Checked was called.
StateBefore == IF clicks = <<>> THEN statsPage.state ELSE clicks[1]

\* C28: when ensureShowYear2Checked has returned it has clicked at most
\* once, only on a control that was not checked, and a control that was
\* checked before the call is checked after it, whether or not its state was
\* found.
C28_CheckedStaysChecked ==
    place = "done" =>
        /\ Len(clicks) <= 1
        /\ clicks # <<>> => clicks[1] # "checked"
        /\ StateBefore = "checked" => statsPage.state = "checked"

====
